---- MODULE Spec2Model ----
(***************************************************************************)
(* The tool-orchestration engine of the goose agent,                       *)
(* crates/goose/src/agents/agent.rs: the reply() conversation loop, the    *)
(* tool dispatcher with its repetition monitor, the per-call tool streams  *)
(* and the two inbound channels.                                           *)
(*                                                                         *)
(* Two specifications share the variables:                                 *)
(*   Spec          one invocation of Agent::reply, with its environment    *)
(*   SpecDispatch  a driver calling Agent::dispatch_tool_call directly     *)
(*                                                                         *)
(* Collaborators that agent.rs only calls (the repetition monitor, the     *)
(* permission judge, request categorisation, the frontend and approval     *)
(* stages) are modelled from their specified contracts.                    *)
(***************************************************************************)
EXTENDS Integers, Sequences, FiniteSets, TLC

\* ------------------------------------------------------------------ bounds

\* operations on the extension registry in one run
MaxOperations == 2

\* tasks that call methods of the one Agent at the same time
MaxTasks == 2

\* confirmations one producer supplies through handle_confirmation
MaxConfirmations == 34

\* messages the notification source of one tool_stream sends
MaxStreamMessages == 4

\* provider calls made by one reply() loop
MaxTurns == 2

\* tool requests in one model response
MaxRequests == 2

\* notifications the tool calls of one turn send before their results
MaxNotifications == 2

\* calls made by the direct driver of dispatch_tool_call
MaxDispatches == 4

\* the largest repetition maximum configured by the driver
MaxRepetitions == 2

\* distinct argument values of a call
MaxArgument == 2

\* ------------------------------------------------------- program constants

\* mpsc::channel(32)
CHANNEL_CAPACITY == 32

PLATFORM_MANAGE_EXTENSIONS_TOOL_NAME == "platform__manage_extensions"

PLATFORM_READ_RESOURCE_TOOL_NAME == "platform__read_resource"

PLATFORM_LIST_RESOURCES_TOOL_NAME == "platform__list_resources"

PLATFORM_SEARCH_AVAILABLE_EXTENSIONS_TOOL_NAME == "platform__search_available_extensions"

ROUTER_VECTOR_SEARCH_TOOL_NAME == "router__vector_search"

ROUTER_LLM_SEARCH_TOOL_NAME == "router__llm_search"

CHAT_MODE_TOOL_SKIPPED_RESPONSE == "skipped: chat mode"

DECLINED_RESPONSE == "declined"

\* a tool registered by the frontend, and a plain extension tool
FrontendToolName == "frontend__tool"

ExtensionToolName == "developer__shell"

ToolNames ==
    { PLATFORM_MANAGE_EXTENSIONS_TOOL_NAME, PLATFORM_READ_RESOURCE_TOOL_NAME,
      PLATFORM_LIST_RESOURCES_TOOL_NAME,
      PLATFORM_SEARCH_AVAILABLE_EXTENSIONS_TOOL_NAME,
      ROUTER_VECTOR_SEARCH_TOOL_NAME, ROUTER_LLM_SEARCH_TOOL_NAME,
      FrontendToolName, ExtensionToolName }

\* names a frontend extension can register although the dispatcher knows them
ShadowingToolNames ==
    { PLATFORM_READ_RESOURCE_TOOL_NAME, ROUTER_VECTOR_SEARCH_TOOL_NAME }

\* the names the model asks for inside reply(): tools of the catalog it was
\* shown, which holds the frontend tools that are registered
ReplyToolNames(fe_tools) ==
    { ExtensionToolName, PLATFORM_MANAGE_EXTENSIONS_TOOL_NAME }
        \cup (fe_tools \ ShadowingToolNames)

Arguments == 1..MaxArgument

\* GOOSE_MODE: reply() only tells "chat" from the agentic modes, which it
\* hands to the permission judge
Modes == { "chat", "approve" }

RequestIds == << "a", "b", "c", "d" >>

ProviderErrors == { "RateLimitExceeded", "ServerError" }

NoMax == -1

VARIABLES
    \* ---- Agent fields
    provider,                \* Mutex<Option<Arc<dyn Provider>>>: TRUE = Some
    frontend_tools,          \* names in the frontend-tool table
    confirmation_ch,         \* confirmation_tx / confirmation_rx contents
    tool_result_ch,          \* tool_result_tx / tool_result_rx contents
    tool_monitor,            \* Mutex<Option<ToolMonitor>>
    router_tool_selector,    \* Mutex<Option<..RouterToolSelector>>: TRUE = Some
    \* ---- locals of reply()
    pc,
    goose_mode,
    messages,                \* the loop's conversation history
    response,                \* the raw model response of the turn: its requests
    frontend_requests,
    remaining_requests,
    message_tool_response,   \* the shared accumulator: <<[id, content]>>
    permission_check_result,
    enable_extension_request_ids,
    tool_futures,
    all_install_successful,
    cursor,                  \* position of the for loop being run
    \* ---- observation
    events,                  \* what the stream yielded in the current iteration
    provider_calls,          \* calls of Provider::complete by this loop
    last_provider_result,
    dispatched,              \* ids handed to dispatch_tool_call this iteration
    gate_consulted,          \* check_tool_permissions ran this iteration
    calls,                   \* the driver's calls since the monitor was last
                             \* configured or reset: per-fingerprint attempts,
                             \* their number, and the last call with its result
    tools_and_prompt,        \* (tools, toolshim_tools, system_prompt) of reply():
                             \* the turn that last prepared them, 0 = before the loop
    \* ---- the extension registry and one operation on it
    extension_manager_lock,  \* Mutex<ExtensionManager>: "free" or its holder
    extensions,              \* names installed in the ExtensionManager
    op,                      \* the operation running, "none" when there is none
    action,                  \* its arguments
    extension_name,
    op_pc,                   \* where it stands
    op_mutated,              \* its change of the registry succeeded
    op_result,               \* what it returned
    index_updates,           \* update_extension_tools calls it issued
    operations,              \* operations started so far
    \* ---- one tool_stream(rx, done)
    ts_rx,                   \* messages waiting in the notification source
    ts_closed,               \* the notification source has ended
    ts_done,                 \* the terminal future: "pending" or its output
    ts_items,                \* the items the stream yielded
    ts_pc,
    ts_sent,                 \* messages the source was given so far
    \* ---- observation of reply(), continued
    handled,                 \* ids whose call reached a handler this iteration
    recorded,                \* ids given to record_tool_call this iteration
    \* ---- one producer of confirmations and the receiver of the channel
    cf_pending,              \* the handle_confirmation call in progress, if any
    cf_sent,                 \* confirmations the channel has accepted
    cf_received,             \* confirmations the receiver has taken
    cf_resumed,              \* a call that found the channel full has delivered
    \* ---- the Mutex fields of the Agent and the tasks that call its methods
    lock_holder,             \* for each Mutex the task that holds it, 0 if free
    tasks                    \* for each task its method and the position in it

vars ==
    << provider, frontend_tools, confirmation_ch, tool_result_ch, tool_monitor,
       router_tool_selector, pc, goose_mode, messages, response,
       frontend_requests, remaining_requests, message_tool_response,
       permission_check_result, enable_extension_request_ids, tool_futures,
       all_install_successful, cursor, events, provider_calls,
       last_provider_result, dispatched, gate_consulted, calls,
       tools_and_prompt, extension_manager_lock, extensions, op, action,
       extension_name, op_pc, op_mutated, op_result, index_updates, operations,
       ts_rx, ts_closed, ts_done, ts_items, ts_pc, ts_sent, handled, recorded,
       cf_pending, cf_sent, cf_received, cf_resumed, lock_holder, tasks >>

lock_vars == << lock_holder, tasks >>

agent_vars ==
    << provider, frontend_tools, confirmation_ch, tool_result_ch, tool_monitor,
       router_tool_selector >>

ext_vars ==
    << extension_manager_lock, extensions, op, action, extension_name, op_pc,
       op_mutated, op_result, index_updates, operations >>

stream_vars == << ts_rx, ts_closed, ts_done, ts_items, ts_pc, ts_sent >>

confirmation_vars == << cf_pending, cf_sent, cf_received, cf_resumed >>

reply_vars ==
    << pc, goose_mode, messages, response, frontend_requests,
       remaining_requests, message_tool_response, permission_check_result,
       enable_extension_request_ids, tool_futures, all_install_successful,
       cursor, events, provider_calls, last_provider_result, dispatched,
       gate_consulted, handled, recorded >>

\* ----------------------------------------------------------------- helpers

Range(s) == { s[i] : i \in DOMAIN s }

RemoveAt(s, i) == SubSeq(s, 1, i - 1) \o SubSeq(s, i + 1, Len(s))

RECURSIVE Filter(_, _)
Filter(s, keep) ==
    IF s = << >> THEN << >>
    ELSE IF Head(s).id \in keep THEN << Head(s) >> \o Filter(Tail(s), keep)
    ELSE Filter(Tail(s), keep)

IdsOf(s) == { s[i].id : i \in DOMAIN s }

\* ------------------------------------------------------------- data model

ParseError == [ ok |-> FALSE, name |-> "", arguments |-> 0 ]

ParsedCall(n, a) == [ ok |-> TRUE, name |-> n, arguments |-> a ]

\* a message of the conversation history: what it is, the iteration that
\* pushed it (0: given to reply()) and the tool requests or tool responses in it
HistoryEntry(kind, turn, content) == << kind, turn, content >>

\* the history as the iterations that follow see it: the content of a message
\* is kept while the iteration that pushed it lasts, then the message is kept
\* by kind and iteration only
Summarised(history) ==
    [ i \in DOMAIN history |-> HistoryEntry(history[i][1], history[i][2], << >>) ]

\* ToolRequest {id, tool_call: Result<ToolCall, ParseError>}
ToolRequest(id, tc) == [ id |-> id, tool_call |-> tc ]

ReplyToolCalls(fe_tools) ==
    { ParseError } \cup { ParsedCall(n, 1) : n \in ReplyToolNames(fe_tools) }

\* the tool requests a model response can carry; ids are unique in a turn
Responses(fe_tools) ==
    UNION { { [ i \in 1..n |-> ToolRequest(RequestIds[i], f[i]) ] :
                f \in [ 1..n -> ReplyToolCalls(fe_tools) ] } : n \in 0..MaxRequests }

\* AgentEvent
Message(kind, id, text, body) ==
    [ id |-> id, kind |-> kind, text |-> text, body |-> body, type |-> "Message" ]

\* the n-th message of the notification stream of the call `id`
JsonRpcMessage(id, n) == << id, n >>

\* AgentEvent::McpNotification((request_id, msg))
McpNotification(request_id, msg) ==
    [ id |-> request_id, kind |-> "notification", text |-> msg, body |-> << >>,
      type |-> "McpNotification" ]

\* Message::with_tool_response(id, result): one more ToolResponse content
with_tool_response(msg, id, result) == Append(msg, [ id |-> id, content |-> result ])

\* -------------------------------------------------------- repetition monitor

Fingerprints == ToolNames \X Arguments

Fingerprint(call) == << call.name, call.arguments >>

\* ToolMonitor::new(max_repetitions)
NewToolMonitor(max) ==
    [ configured |-> TRUE, max_repetitions |-> max,
      call_counts |-> [ fp \in Fingerprints |-> 0 ] ]

NoToolMonitor ==
    [ configured |-> FALSE, max_repetitions |-> NoMax,
      call_counts |-> [ fp \in Fingerprints |-> 0 ] ]

\* ToolMonitor::check_tool_call: count the fingerprint, then compare
check_tool_call(monitor, call) ==
    LET fp == Fingerprint(call)
        n == monitor.call_counts[fp] + 1
    IN  [ monitor |-> [ monitor EXCEPT !.call_counts[fp] = n ],
          allowed |-> (monitor.max_repetitions = NoMax \/ n <= monitor.max_repetitions) ]

\* ToolMonitor::get_stats
get_stats(monitor) == monitor.call_counts

\* ToolMonitor::reset
reset(monitor) == [ monitor EXCEPT !.call_counts = [ fp \in Fingerprints |-> 0 ] ]

\* ------------------------------------------------------------- dispatcher

\* Result<ToolCallResult, ToolError> as dispatch_tool_call returns it:
\*   outer         Ok / Err of the returned Result
\*   branch        the resolution branch that produced it
\*   error         the ExecutionError text, "" when none
\*   outcomes      what the result future can resolve to
\*   notifications whether it carries a notification stream
\*   processed     went through large_response_handler::process_tool_response
ToolCallResult(outer, branch, error, outcomes, n, processed) ==
    [ outer |-> outer, branch |-> branch, error |-> error, outcomes |-> outcomes,
      processed |-> processed, notifications |-> n ]

NoResult == ToolCallResult("", "", "", { }, FALSE, FALSE)

RepetitionRejected ==
    ToolCallResult("Err", "monitor",
                   "Tool call rejected: exceeded maximum allowed repetitions",
                   { "err" }, FALSE, FALSE)

\* the monitor does not take the call into account (its state is not written back)
MonitorCheckOnCopy(monitor, call) ==
    IF monitor.configured
    THEN [ monitor |-> monitor, allowed |-> check_tool_call(monitor, call).allowed ]
    ELSE [ monitor |-> monitor, allowed |-> TRUE ]

\* the monitor's verdict is dropped
MonitorCheckIgnored(monitor, call) ==
    IF monitor.configured
    THEN [ monitor |-> check_tool_call(monitor, call).monitor, allowed |-> TRUE ]
    ELSE [ monitor |-> monitor, allowed |-> TRUE ]

\* if let Some(monitor) = self.tool_monitor.lock().await.as_mut()
\*     { if !monitor.check_tool_call(..) { return Err(..) } }
MonitorCheck(monitor, call) ==
    IF monitor.configured
    THEN check_tool_call(monitor, call)
    ELSE [ monitor |-> monitor, allowed |-> TRUE ]

\* Agent::manage_extensions seen from its caller: a ready result
ManageExtensionsResults ==
    { ToolCallResult("Ok", "manage_extensions", "", { o }, FALSE, FALSE) :
        o \in { "ok", "err" } }

\* a platform operation of the extension manager: a ready result, post-processed
PlatformResults(branch) ==
    { ToolCallResult("Ok", branch, "", { o }, FALSE, TRUE) : o \in { "ok", "err" } }

FrontendRequired ==
    ToolCallResult("Ok", "frontend", "Frontend tool execution required",
                   { "err" }, FALSE, TRUE)

\* the router search tool: early Err without a selector or when selection fails
RouterResults(selector) ==
    IF selector
    THEN { ToolCallResult("Ok", "router", "", { "ok" }, FALSE, TRUE),
           ToolCallResult("Err", "router", "Failed to select tools", { "err" }, FALSE, FALSE) }
    ELSE { ToolCallResult("Err", "router", "No tool selector available",
                          { "err" }, FALSE, FALSE) }

\* ExtensionManager::dispatch_tool_call: a running call with its notification
\* stream, or an error turned into a ready failed result
ExtensionResults ==
    { ToolCallResult("Ok", "extension", "", { "ok", "err" }, TRUE, TRUE),
      ToolCallResult("Ok", "extension", "dispatch failed", { "err" }, FALSE, TRUE) }

\* the frontend-tool table is looked up before the platform names
RouteFrontendFirst(call, fe_tools, selector) ==
    IF call.name \in fe_tools THEN { FrontendRequired }
    ELSE IF call.name = PLATFORM_MANAGE_EXTENSIONS_TOOL_NAME THEN ManageExtensionsResults
    ELSE IF call.name = PLATFORM_READ_RESOURCE_TOOL_NAME
    THEN PlatformResults("read_resource")
    ELSE IF call.name = PLATFORM_LIST_RESOURCES_TOOL_NAME
    THEN PlatformResults("list_resources")
    ELSE IF call.name = PLATFORM_SEARCH_AVAILABLE_EXTENSIONS_TOOL_NAME
    THEN PlatformResults("search_available_extensions")
    ELSE IF call.name = ROUTER_VECTOR_SEARCH_TOOL_NAME
            \/ call.name = ROUTER_LLM_SEARCH_TOOL_NAME
    THEN RouterResults(selector)
    ELSE ExtensionResults

\* the router search names are looked at before the frontend-tool table
RouteRouterFirst(call, fe_tools, selector) ==
    IF call.name = PLATFORM_MANAGE_EXTENSIONS_TOOL_NAME THEN ManageExtensionsResults
    ELSE IF call.name = PLATFORM_READ_RESOURCE_TOOL_NAME
    THEN PlatformResults("read_resource")
    ELSE IF call.name = PLATFORM_LIST_RESOURCES_TOOL_NAME
    THEN PlatformResults("list_resources")
    ELSE IF call.name = PLATFORM_SEARCH_AVAILABLE_EXTENSIONS_TOOL_NAME
    THEN PlatformResults("search_available_extensions")
    ELSE IF call.name = ROUTER_VECTOR_SEARCH_TOOL_NAME
            \/ call.name = ROUTER_LLM_SEARCH_TOOL_NAME
    THEN RouterResults(selector)
    ELSE IF call.name \in fe_tools THEN { FrontendRequired }
    ELSE ExtensionResults

\* the branches of dispatch_tool_call after the monitor check, first match wins
Route(call, fe_tools, selector) ==
    IF call.name = PLATFORM_MANAGE_EXTENSIONS_TOOL_NAME THEN ManageExtensionsResults
    ELSE IF call.name = PLATFORM_READ_RESOURCE_TOOL_NAME
    THEN PlatformResults("read_resource")
    ELSE IF call.name = PLATFORM_LIST_RESOURCES_TOOL_NAME
    THEN PlatformResults("list_resources")
    ELSE IF call.name = PLATFORM_SEARCH_AVAILABLE_EXTENSIONS_TOOL_NAME
    THEN PlatformResults("search_available_extensions")
    ELSE IF call.name \in fe_tools THEN { FrontendRequired }
    ELSE IF call.name = ROUTER_VECTOR_SEARCH_TOOL_NAME
            \/ call.name = ROUTER_LLM_SEARCH_TOOL_NAME
    THEN RouterResults(selector)
    ELSE ExtensionResults

\* the branches are taken whatever the monitor answered
dispatch_tool_call_unchecked(monitor, call, fe_tools, selector) ==
    { [ result |-> r, monitor |-> MonitorCheck(monitor, call).monitor ] :
        r \in Route(call, fe_tools, selector) }

\* Agent::dispatch_tool_call: every (monitor afterwards, result) it can return
dispatch_tool_call(monitor, call, fe_tools, selector) ==
    LET m == MonitorCheck(monitor, call)
    IN  IF ~m.allowed
        THEN { [ result |-> RepetitionRejected, monitor |-> m.monitor ] }
        ELSE { [ result |-> r, monitor |-> m.monitor ] :
                 r \in Route(call, fe_tools, selector) }

\* Agent::get_tool_stats
get_tool_stats(monitor) ==
    IF monitor.configured
    THEN [ some |-> TRUE, stats |-> get_stats(monitor) ]
    ELSE [ some |-> FALSE, stats |-> [ fp \in Fingerprints |-> 0 ] ]

\* ------------------------------------------------------------ tool streams

\* tool_stream(rx, done): whether the source rx can still deliver a message,
\* and what the terminal future done can resolve to; each poll yields a
\* Message from rx or the Result of done, and the stream ends with the Result
tool_stream(rx, done) == [ outcomes |-> done, notifications |-> rx ]

\* an Err of dispatch_tool_call is pushed as a stream that yields nothing
TaggedStreamWithoutErr(req_id, tool_result) ==
    LET st == IF tool_result.outer = "Ok"
              THEN tool_stream(tool_result.notifications, tool_result.outcomes)
              ELSE tool_stream(FALSE, { })
    IN  [ id |-> req_id, outcomes |-> st.outcomes, notifications |-> st.notifications ]

\* the entry pushed on tool_futures for a dispatched call:
\*   Ok(result) => tool_stream(result.notification_stream or empty, result.result)
\*   Err(e)     => tool_stream(empty, ready(Err(e)))
TaggedStream(req_id, tool_result) ==
    LET st == IF tool_result.outer = "Ok"
              THEN tool_stream(tool_result.notifications, tool_result.outcomes)
              ELSE tool_stream(FALSE, { "err" })
    IN  [ id |-> req_id, outcomes |-> st.outcomes, notifications |-> st.notifications ]

\* --------------------------------------------------------------- the state

EmptyPermissionCheckResult ==
    [ approved |-> << >>, denied |-> << >>, needs_approval |-> << >> ]

NoCall == [ result |-> NoResult, call |-> ParseError ]

NoCalls ==
    [ attempts |-> [ fp \in Fingerprints |-> 0 ], total |-> 0, last |-> NoCall ]

\* ------------------------------------------------ the locks of the Agent

\* the Mutex fields of struct Agent that the methods below lock
Locks ==
    { "provider", "extension_manager", "frontend_tools", "frontend_instructions",
      "prompt_manager", "router_tool_selector", "tool_monitor" }

Tasks == 1..MaxTasks

\* a task that is in no method
Idle == << "", 0 >>

\* a guard bound by `let`, and its drop at the end of its scope
Acquire(lock) == << << "lock", lock >> >>

Release(lock) == << << "unlock", lock >> >>

\* a guard that is a temporary of one statement
Temporary(lock) == Acquire(lock) \o Release(lock)

\* dispatch_tool_call of a router search name: the monitor, then the extension
\* manager kept to the end, under which is_frontend_tool and the selector's
\* clone lock in turn
DispatchToolCallLocks ==
    Temporary("tool_monitor") \o Acquire("extension_manager")
        \o Temporary("frontend_tools") \o Temporary("router_tool_selector")
        \o Release("extension_manager")

\* manage_extensions installing with the router enabled
ManageExtensionsLocks ==
    Acquire("extension_manager") \o Temporary("router_tool_selector")
        \o Temporary("extension_manager") \o Release("extension_manager")

\* add_extension of a frontend extension, then the index update
AddFrontendExtensionLocks ==
    Acquire("frontend_tools") \o Temporary("frontend_instructions")
        \o Release("frontend_tools") \o Temporary("router_tool_selector")
        \o Temporary("extension_manager")

\* add_extension of any other extension, then the index update
AddExtensionLocks ==
    Temporary("extension_manager") \o Temporary("router_tool_selector")
        \o Temporary("extension_manager")

\* remove_extension with the router enabled
RemoveExtensionLocks ==
    Acquire("extension_manager") \o Temporary("router_tool_selector")
        \o Temporary("extension_manager") \o Release("extension_manager")

\* update_provider and the update_router_tool_selector it calls
UpdateProviderLocks ==
    Temporary("provider") \o Acquire("extension_manager")
        \o Temporary("router_tool_selector") \o Release("extension_manager")

GetPrefixedToolsLocks ==
    Temporary("extension_manager") \o Temporary("frontend_tools")

\* the selector's guard is kept while the extension manager is locked
ListToolsForRouterLocksHeld ==
    Acquire("router_tool_selector") \o Temporary("extension_manager")
        \o Release("router_tool_selector")

\* list_tools_for_router: the selector is cloned out of its lock, then the
\* extension manager is locked
ListToolsForRouterLocks ==
    Temporary("router_tool_selector") \o Temporary("extension_manager")

\* create_recipe: the extension manager and the prompt manager are kept to
\* the end; the provider and the frontend instructions are locked under them
CreateRecipeLocks ==
    Acquire("extension_manager") \o Temporary("provider")
        \o Acquire("prompt_manager") \o Temporary("frontend_instructions")
        \o Temporary("provider") \o Release("prompt_manager")
        \o Release("extension_manager")

Methods ==
    { "dispatch_tool_call", "manage_extensions", "add_frontend_extension",
      "add_extension", "remove_extension", "update_provider",
      "get_prefixed_tools", "list_tools_for_router", "create_recipe" }

\* what a method does to the locks, statement after statement
LockProgram(method) ==
    CASE method = "dispatch_tool_call" -> DispatchToolCallLocks
      [] method = "manage_extensions" -> ManageExtensionsLocks
      [] method = "add_frontend_extension" -> AddFrontendExtensionLocks
      [] method = "add_extension" -> AddExtensionLocks
      [] method = "remove_extension" -> RemoveExtensionLocks
      [] method = "update_provider" -> UpdateProviderLocks
      [] method = "get_prefixed_tools" -> GetPrefixedToolsLocks
      [] method = "list_tools_for_router" -> ListToolsForRouterLocks
      [] method = "create_recipe" -> CreateRecipeLocks

\* Agent::new(), before reply() is called
Init ==
    /\ provider = FALSE
    /\ frontend_tools = { }
    /\ confirmation_ch = << >>
    /\ tool_result_ch = << >>
    /\ tool_monitor = NoToolMonitor
    /\ router_tool_selector = FALSE
    /\ pc = "idle"
    /\ goose_mode = ""
    /\ messages = << HistoryEntry("user", 0, << >>) >>
    /\ response = << >>
    /\ frontend_requests = << >>
    /\ remaining_requests = << >>
    /\ message_tool_response = << >>
    /\ permission_check_result = EmptyPermissionCheckResult
    /\ enable_extension_request_ids = { }
    /\ tool_futures = << >>
    /\ all_install_successful = TRUE
    /\ cursor = 1
    /\ events = << >>
    /\ provider_calls = 0
    /\ last_provider_result = "none"
    /\ dispatched = { }
    /\ gate_consulted = FALSE
    /\ calls = NoCalls
    /\ tools_and_prompt = 0
    /\ extension_manager_lock = "free"
    /\ extensions = { }
    /\ op = "none"
    /\ action = ""
    /\ extension_name = ""
    /\ op_pc = "none"
    /\ op_mutated = FALSE
    /\ op_result = << >>
    /\ index_updates = << >>
    /\ operations = 0
    /\ ts_rx = << >>
    /\ ts_closed = FALSE
    /\ ts_done = "pending"
    /\ ts_items = << >>
    /\ ts_pc = "running"
    /\ ts_sent = 0
    /\ handled = { }
    /\ recorded = { }
    /\ cf_pending = << >>
    /\ cf_sent = 0
    /\ cf_received = 0
    /\ cf_resumed = FALSE
    /\ lock_holder = [ l \in Locks |-> 0 ]
    /\ tasks = [ t \in Tasks |-> Idle ]

\* the locals of one loop iteration, as a new iteration finds them
NewIteration ==
    /\ response' = << >>
    /\ frontend_requests' = << >>
    /\ remaining_requests' = << >>
    /\ events' = << >>
    /\ last_provider_result' = "none"
    /\ message_tool_response' = << >>
    /\ permission_check_result' = EmptyPermissionCheckResult
    /\ enable_extension_request_ids' = { }
    /\ tool_futures' = << >>
    /\ all_install_successful' = TRUE
    /\ cursor' = 1
    /\ dispatched' = { }
    /\ gate_consulted' = FALSE
    /\ handled' = { }
    /\ recorded' = { }

\* ------------------------------------------------------ agent configuration

\* Agent::configure_tool_monitor
ConfigureToolMonitor ==
    /\ pc = "idle"
    /\ \E max \in { NoMax } \cup 0..MaxRepetitions :
         tool_monitor' = NewToolMonitor(max)
    /\ calls' = NoCalls
    /\ UNCHANGED << provider, frontend_tools, confirmation_ch, tool_result_ch,
                    router_tool_selector, reply_vars, tools_and_prompt, ext_vars, stream_vars, lock_vars,
                    confirmation_vars >>

\* Agent::reset_tool_monitor
ResetToolMonitor ==
    /\ pc = "idle"
    /\ tool_monitor.configured
    /\ tool_monitor' = reset(tool_monitor)
    /\ calls' = NoCalls
    /\ UNCHANGED << provider, frontend_tools, confirmation_ch, tool_result_ch,
                    router_tool_selector, reply_vars, tools_and_prompt, ext_vars, stream_vars, lock_vars,
                    confirmation_vars >>

\* Agent::update_provider, with update_router_tool_selector under the
\* GOOSE_ROUTER_TOOL_SELECTION_STRATEGY of the process: a selector is installed
\* when the strategy is vector or llm
update_provider(strategy) ==
    /\ pc = "idle"
    /\ provider' = TRUE
    /\ router_tool_selector' = (router_tool_selector \/ strategy # "default")
    /\ UNCHANGED << frontend_tools, confirmation_ch, tool_result_ch, tool_monitor,
                    reply_vars, calls, tools_and_prompt, ext_vars, stream_vars, lock_vars,
                    confirmation_vars >>

UpdateProvider == update_provider("default")

UpdateProviderWithRouter == \E strategy \in { "vector", "llm" } : update_provider(strategy)

\* Agent::add_extension with ExtensionConfig::Frontend: the tools go to the
\* frontend-tool table, whatever their names
add_frontend_extension(tools) ==
    /\ pc = "idle"
    /\ frontend_tools' = frontend_tools \cup tools
    /\ UNCHANGED << provider, confirmation_ch, tool_result_ch, tool_monitor,
                    router_tool_selector, reply_vars, calls, tools_and_prompt, ext_vars, stream_vars, lock_vars,
                    confirmation_vars >>

AddFrontendExtension == add_frontend_extension({ FrontendToolName })

\* a frontend extension whose tools bear the names of a platform tool and of
\* a router search tool
AddShadowingFrontendExtension == add_frontend_extension(ShadowingToolNames)

\* ------------------------------------------------- direct use of dispatch

DriverCalls ==
    { ParsedCall(n, 1) : n \in ToolNames }
    \cup { ParsedCall(ExtensionToolName, a) : a \in Arguments }

\* one call of dispatch_tool_call by a caller other than reply()
DispatchToolCall ==
    /\ pc = "idle"
    /\ calls.total < MaxDispatches
    /\ \E call \in DriverCalls :
         \E out \in dispatch_tool_call(tool_monitor, call, frontend_tools,
                                       router_tool_selector) :
            /\ tool_monitor' = out.monitor
            /\ calls' = [ attempts |->
                            [ calls.attempts EXCEPT ![Fingerprint(call)] = @ + 1 ],
                          total |-> calls.total + 1,
                          last |-> [ result |-> out.result, call |-> call ] ]
    /\ UNCHANGED << provider, frontend_tools, confirmation_ch, tool_result_ch,
                    router_tool_selector, reply_vars, tools_and_prompt, ext_vars, stream_vars, lock_vars,
                    confirmation_vars >>

NextDispatch ==
    \/ ConfigureToolMonitor
    \/ ResetToolMonitor
    \/ UpdateProviderWithRouter
    \/ AddFrontendExtension
    \/ AddShadowingFrontendExtension
    \/ DispatchToolCall

SpecDispatch == Init /\ [][NextDispatch]_vars

\* ------------------------------------------- operations on the extensions

ExtensionNames == { "developer", "memory" }

\* Ok(vec![Content::text("The extension '{}' has been installed successfully")])
Installed(name) == << "Ok", "has been installed successfully", name >>

\* Ok(vec![Content::text("The extension '{}' has been disabled successfully")])
Disabled(name) == << "Ok", "has been disabled successfully", name >>

\* Err(ToolError::ExecutionError(text)), Err(ExtensionError) or Err(anyhow)
Failure(text) == << "Err", text >>

\* ToolRouterIndexManager::is_tool_router_enabled(&selector)
is_tool_router_enabled(selector) == selector

\* what is left unchanged by a step of an operation on the extensions
NotOfExtensions ==
    UNCHANGED << agent_vars, reply_vars, calls, tools_and_prompt, stream_vars, lock_vars,
                 confirmation_vars >>

\* the operation starts: its first statement locks the extension manager
Begin(name, act, ext) ==
    /\ op = "none"
    /\ operations < MaxOperations
    /\ extension_manager_lock = "free"
    /\ extension_manager_lock' = name
    /\ op' = name
    /\ action' = act
    /\ extension_name' = ext
    /\ op_pc' = "locked"
    /\ op_mutated' = FALSE
    /\ op_result' = << >>
    /\ index_updates' = << >>
    /\ operations' = operations + 1
    /\ UNCHANGED extensions
    /\ NotOfExtensions

\* the operation returns `result`; its guard of the extension manager, if it
\* still has one, is dropped
Return(result) ==
    /\ op_pc' = "returned"
    /\ op_result' = result
    /\ extension_manager_lock' = "free"

\* the configurations the store holds, and the names the model can ask for
StoredConfigs == ExtensionNames

RequestedNames == ExtensionNames \cup { "unknown" }

\* dispatch_tool_call of platform__manage_extensions: action and
\* extension_name are read from the arguments, manage_extensions is called
ManageExtensions ==
    \E act \in { "enable", "disable" }, ext \in RequestedNames :
        Begin("manage_extensions", act, ext)

\* action == "disable": remove_extension, and the result is returned at once
ManageExtensionsDisable ==
    /\ op = "manage_extensions"
    /\ op_pc = "locked"
    /\ action = "disable"
    /\ \E removed \in BOOLEAN :
         /\ extensions' = IF removed THEN extensions \ { extension_name }
                          ELSE extensions
         /\ op_mutated' = removed
         /\ Return(IF removed THEN Disabled(extension_name)
                   ELSE Failure("remove_extension failed"))
    /\ UNCHANGED << op, action, extension_name, index_updates, operations >>
    /\ NotOfExtensions

\* ExtensionConfigManager::get_config_by_name: Ok(Some(config)) or Ok(None),
\* as the store holds the name or not, or Err
get_config_by_name(name) ==
    (IF name \in StoredConfigs THEN { "Some" } ELSE { "None" }) \cup { "Err" }

\* Err(ToolError::ExecutionError("Extension '{}' not found. .."))
NotFound == Failure("not found")

\* Err(ToolError::ExecutionError("Failed to get extension config: {}"))
LookupFailure == Failure("Failed to get extension config")

\* both arms return the same error
ConfigErrorSame(config) == NotFound

\* the arms Ok(None) and Err(e) of the match on the lookup
ConfigError(config) == IF config = "None" THEN NotFound ELSE LookupFailure

\* let config = match ExtensionConfigManager::get_config_by_name(..)
ManageExtensionsLookup ==
    /\ op = "manage_extensions"
    /\ op_pc = "locked"
    /\ action # "disable"
    /\ \E config \in get_config_by_name(extension_name) :
         IF config = "Some"
         THEN /\ op_pc' = "install"
              /\ UNCHANGED << op_result, extension_manager_lock >>
         ELSE Return(ConfigError(config))
    /\ UNCHANGED << extensions, op, action, extension_name, op_mutated,
                    index_updates, operations >>
    /\ NotOfExtensions

\* extension_manager.add_extension(config): on success, with the router
\* enabled, the index is to be updated before the result is returned
ManageExtensionsInstall ==
    /\ op = "manage_extensions"
    /\ op_pc = "install"
    /\ \E installed \in BOOLEAN :
         /\ extensions' = IF installed THEN extensions \cup { extension_name }
                          ELSE extensions
         /\ op_mutated' = installed
         /\ IF installed /\ is_tool_router_enabled(router_tool_selector)
            THEN /\ op_pc' = "index_lock"
                 /\ op_result' = Installed(extension_name)
                 /\ UNCHANGED extension_manager_lock
            ELSE Return(IF installed THEN Installed(extension_name)
                        ELSE Failure("add_extension failed"))
    /\ UNCHANGED << op, action, extension_name, index_updates, operations >>
    /\ NotOfExtensions

\* Agent::add_extension with a configuration that is not a frontend one
AddExtension == \E ext \in ExtensionNames : Begin("add_extension", "", ext)

\* extension_manager.add_extension(extension)?, in a block of its own: the
\* guard is dropped at the end of the block
AddExtensionInstall ==
    /\ op = "add_extension"
    /\ op_pc = "locked"
    /\ \E installed \in BOOLEAN :
         /\ extensions' = IF installed THEN extensions \cup { extension_name }
                          ELSE extensions
         /\ op_mutated' = installed
         /\ IF installed /\ is_tool_router_enabled(router_tool_selector)
            THEN /\ op_pc' = "index_lock"
                 /\ op_result' = << "Ok" >>
                 /\ extension_manager_lock' = "free"
            ELSE Return(IF installed THEN << "Ok" >>
                        ELSE Failure("add_extension failed"))
    /\ UNCHANGED << op, action, extension_name, index_updates, operations >>
    /\ NotOfExtensions

\* Agent::remove_extension
RemoveExtension == \E ext \in ExtensionNames : Begin("remove_extension", "", ext)

\* extension_manager.remove_extension(name)?, the guard living on
RemoveExtensionRemove ==
    /\ op = "remove_extension"
    /\ op_pc = "locked"
    /\ \E removed \in BOOLEAN :
         /\ extensions' = IF removed THEN extensions \ { extension_name }
                          ELSE extensions
         /\ op_mutated' = removed
         /\ IF removed /\ is_tool_router_enabled(router_tool_selector)
            THEN /\ op_pc' = "index_lock"
                 /\ op_result' = << "Ok" >>
                 /\ UNCHANGED extension_manager_lock
            ELSE Return(IF removed THEN << "Ok" >>
                        ELSE Failure("remove_extension failed"))
    /\ UNCHANGED << op, action, extension_name, index_updates, operations >>
    /\ NotOfExtensions

\* let extension_manager = self.extension_manager.lock().await, before the
\* index is updated: the Mutex is tokio's, it is granted when it is free
IndexLock ==
    /\ op_pc = "index_lock"
    /\ extension_manager_lock = "free"
    /\ extension_manager_lock' = op
    /\ op_pc' = "indexing"
    /\ UNCHANGED << extensions, op, action, extension_name, op_mutated, op_result,
                    index_updates, operations >>
    /\ NotOfExtensions

\* the action handed to update_extension_tools
VectorAction ==
    IF op = "manage_extensions" THEN (IF action = "disable" THEN "remove" ELSE "add")
    ELSE IF op = "add_extension" THEN "add"
    ELSE "remove"

\* ToolRouterIndexManager::update_extension_tools(.., name, action): its
\* failure is what the operation returns
UpdateExtensionTools ==
    /\ op_pc = "indexing"
    /\ index_updates' = Append(index_updates, << VectorAction, extension_name >>)
    /\ \E indexed \in BOOLEAN :
         Return(IF indexed THEN op_result
                ELSE IF op = "manage_extensions"
                THEN Failure("Failed to update vector index")
                ELSE IF op = "add_extension"
                THEN Failure("Failed to index tools for extension")
                ELSE Failure("update_extension_tools failed"))
    /\ UNCHANGED << extensions, op, action, extension_name, op_mutated, operations >>
    /\ NotOfExtensions

\* the branches of dispatch_tool_call that follow
\* `let extension_manager = self.extension_manager.lock().await`
LockedBranches ==
    { "read_resource", "list_resources", "search_available_extensions", "router",
      "extension" }

\* dispatch_tool_call of a call that is not platform__manage_extensions: the
\* extension manager is locked before the name is looked at any further
DispatchLock ==
    \E branch \in LockedBranches : Begin("dispatch_tool_call", branch, "")

\* the awaited operation of the branch (read_resource, list_resources,
\* search_available_extensions, select_tools, the extension manager's
\* dispatch_tool_call); the guard lives until the function returns
DispatchBranch ==
    /\ op = "dispatch_tool_call"
    /\ op_pc = "locked"
    /\ \E ok \in BOOLEAN :
         Return(IF ok THEN << "Ok" >> ELSE Failure(action))
    /\ UNCHANGED << extensions, op, action, extension_name, op_mutated,
                    index_updates, operations >>
    /\ NotOfExtensions

\* the caller has the result: another operation can start
OperationOver ==
    /\ op_pc = "returned"
    /\ op' = "none"
    /\ op_pc' = "none"
    /\ UNCHANGED << extension_manager_lock, extensions, action, extension_name,
                    op_mutated, op_result, index_updates, operations >>
    /\ NotOfExtensions

\* what an operation on the extensions can do next
ExtensionStep ==
    \/ ManageExtensionsDisable
    \/ ManageExtensionsLookup
    \/ ManageExtensionsInstall
    \/ AddExtensionInstall
    \/ RemoveExtensionRemove
    \/ IndexLock
    \/ UpdateExtensionTools
    \/ DispatchBranch

NextExtensions ==
    \/ UpdateProviderWithRouter
    \/ ManageExtensions
    \/ ManageExtensionsDisable
    \/ ManageExtensionsLookup
    \/ ManageExtensionsInstall
    \/ AddExtension
    \/ AddExtensionInstall
    \/ RemoveExtension
    \/ RemoveExtensionRemove
    \/ IndexLock
    \/ UpdateExtensionTools
    \/ DispatchLock
    \/ DispatchBranch
    \/ OperationOver

SpecExtensions == Init /\ [][NextExtensions]_vars

\* ------------------------------------------------------------ tool_stream

ToolStreamItemMessage(msg) == << "Message", msg >>

ToolStreamItemResult(r) == << "Result", r >>

\* the loop goes on after the Result
AfterResultContinue == "running"

\* break
AfterResult == "ended"

\* the source of rx sends its next message (the messages are numbered as sent)
SourceSend ==
    /\ ~ts_closed
    /\ ts_sent < MaxStreamMessages
    /\ ts_sent' = ts_sent + 1
    /\ ts_rx' = Append(ts_rx, ts_sent + 1)
    /\ UNCHANGED << ts_closed, ts_done, ts_items, ts_pc >>
    /\ UNCHANGED << agent_vars, reply_vars, calls, tools_and_prompt, ext_vars, confirmation_vars, lock_vars >>

\* the source of rx ends: rx.next() is None once what was sent is taken
SourceClose ==
    /\ ~ts_closed
    /\ ts_closed' = TRUE
    /\ UNCHANGED << ts_rx, ts_done, ts_items, ts_pc, ts_sent >>
    /\ UNCHANGED << agent_vars, reply_vars, calls, tools_and_prompt, ext_vars, confirmation_vars, lock_vars >>

\* the future done resolves, to Ok or to Err
DoneResolves ==
    /\ ts_done = "pending"
    /\ ts_done' \in { "ok", "err" }
    /\ UNCHANGED << ts_rx, ts_closed, ts_items, ts_pc, ts_sent >>
    /\ UNCHANGED << agent_vars, reply_vars, calls, tools_and_prompt, ext_vars, confirmation_vars, lock_vars >>

\* select!: Some(msg) = rx.next() => yield ToolStreamItem::Message(msg)
SelectMessage ==
    /\ ts_pc = "running"
    /\ ts_rx # << >>
    /\ ts_items' = Append(ts_items, ToolStreamItemMessage(Head(ts_rx)))
    /\ ts_rx' = Tail(ts_rx)
    /\ UNCHANGED << ts_closed, ts_done, ts_pc, ts_sent >>
    /\ UNCHANGED << agent_vars, reply_vars, calls, tools_and_prompt, ext_vars, confirmation_vars, lock_vars >>

\* select!: r = &mut done => yield ToolStreamItem::Result(r); break
SelectResult ==
    /\ ts_pc = "running"
    /\ ts_done # "pending"
    /\ ts_items' = Append(ts_items, ToolStreamItemResult(ts_done))
    /\ ts_pc' = AfterResult
    /\ UNCHANGED << ts_rx, ts_closed, ts_done, ts_sent >>
    /\ UNCHANGED << agent_vars, reply_vars, calls, tools_and_prompt, ext_vars, confirmation_vars, lock_vars >>

NextToolStream ==
    \/ SourceSend
    \/ SourceClose
    \/ DoneResolves
    \/ SelectMessage
    \/ SelectResult

SpecToolStream == Init /\ [][NextToolStream]_vars

\* ------------------------------------------------- the confirmation channel

\* the k-th confirmation of the producer
Confirmation(k) ==
    [ request_id |-> k,
      permission |-> IF k % 2 = 0 THEN "AllowOnce" ELSE "DenyOnce" ]

\* a channel without a bound
HasCapacityAlways(ch) == TRUE

\* mpsc::channel(32): a send is accepted while fewer than 32 values wait
HasCapacity(ch) == Len(ch) < CHANNEL_CAPACITY

\* Agent::handle_confirmation is called: confirmation_tx.send(..) starts, and
\* finds the channel with or without room
HandleConfirmationCalled ==
    /\ cf_pending = << >>
    /\ cf_sent < MaxConfirmations
    /\ cf_pending' = << cf_sent + 1, ~HasCapacity(confirmation_ch) >>
    /\ UNCHANGED << cf_sent, cf_received, cf_resumed >>
    /\ UNCHANGED << agent_vars, reply_vars, calls, tools_and_prompt, ext_vars,
                    stream_vars, lock_vars >>

\* confirmation_tx.send(..).await completes: the value is in the channel and
\* handle_confirmation returns
HandleConfirmationSent ==
    /\ cf_pending # << >>
    /\ HasCapacity(confirmation_ch)
    /\ confirmation_ch' = Append(confirmation_ch, Confirmation(cf_pending[1]))
    /\ cf_sent' = cf_pending[1]
    /\ cf_resumed' = (cf_resumed \/ cf_pending[2])
    /\ cf_pending' = << >>
    /\ UNCHANGED << provider, frontend_tools, tool_result_ch, tool_monitor,
                    router_tool_selector, cf_received >>
    /\ UNCHANGED << reply_vars, calls, tools_and_prompt, ext_vars, stream_vars, lock_vars >>

\* confirmation_rx.recv(): the receiver takes the oldest value
ConfirmationReceived ==
    /\ confirmation_ch # << >>
    /\ confirmation_ch' = Tail(confirmation_ch)
    /\ cf_received' = cf_received + 1
    /\ UNCHANGED << provider, frontend_tools, tool_result_ch, tool_monitor,
                    router_tool_selector, cf_pending, cf_sent, cf_resumed >>
    /\ UNCHANGED << reply_vars, calls, tools_and_prompt, ext_vars, stream_vars, lock_vars >>

NextConfirmations ==
    \/ HandleConfirmationCalled
    \/ HandleConfirmationSent
    \/ ConfirmationReceived

SpecConfirmations == Init /\ [][NextConfirmations]_vars

\* ------------------------------------------- methods running side by side

NotOfLocks ==
    UNCHANGED << agent_vars, reply_vars, calls, tools_and_prompt, ext_vars,
                 stream_vars, confirmation_vars >>

\* the statement the task `t` is at, << >> when it is at none
Statement(t) ==
    IF tasks[t] # Idle /\ tasks[t][2] <= Len(LockProgram(tasks[t][1]))
    THEN LockProgram(tasks[t][1])[tasks[t][2]]
    ELSE << >>

Advance(t) == tasks' = [ tasks EXCEPT ![t] = << tasks[t][1], tasks[t][2] + 1 >> ]

\* a task calls a method of the agent
CallMethod ==
    /\ \E t \in Tasks, method \in Methods :
         /\ tasks[t] = Idle
         /\ tasks' = [ tasks EXCEPT ![t] = << method, 1 >> ]
    /\ UNCHANGED lock_holder
    /\ NotOfLocks

\* lock().await is granted: tokio's Mutex gives the lock when nobody has it
AcquireLock ==
    /\ \E t \in Tasks :
         /\ Statement(t) # << >>
         /\ Statement(t)[1] = "lock"
         /\ lock_holder[Statement(t)[2]] = 0
         /\ lock_holder' = [ lock_holder EXCEPT ![Statement(t)[2]] = t ]
         /\ Advance(t)
    /\ NotOfLocks

\* a guard is dropped
ReleaseLock ==
    /\ \E t \in Tasks :
         /\ Statement(t) # << >>
         /\ Statement(t)[1] = "unlock"
         /\ lock_holder' = [ lock_holder EXCEPT ![Statement(t)[2]] = 0 ]
         /\ Advance(t)
    /\ NotOfLocks

\* the method returns
MethodReturns ==
    /\ \E t \in Tasks :
         /\ tasks[t] # Idle
         /\ Statement(t) = << >>
         /\ tasks' = [ tasks EXCEPT ![t] = Idle ]
    /\ UNCHANGED lock_holder
    /\ NotOfLocks

NextLocks ==
    \/ CallMethod
    \/ AcquireLock
    \/ ReleaseLock
    \/ MethodReturns

SpecLocks == Init /\ [][NextLocks]_vars

\* ------------------------------------------------------------------ reply()

\* reply() up to the stream it returns: the mode is read once, the initial
\* service fee is charged, and a rejected charge makes reply() return Err
Reply ==
    /\ pc = "idle"
    /\ \E mode \in Modes, paid \in BOOLEAN :
         /\ goose_mode' = mode
         /\ pc' = IF paid THEN "generate" ELSE "failed"
    /\ UNCHANGED << agent_vars, messages, response, frontend_requests,
                    remaining_requests, message_tool_response,
                    permission_check_result, enable_extension_request_ids,
                    tool_futures, all_install_successful, cursor, events,
                    provider_calls, last_provider_result, dispatched,
                    gate_consulted, calls, tools_and_prompt, ext_vars, stream_vars, lock_vars,
                    confirmation_vars, handled, recorded >>

\* self.provider().await? with no provider set: the stream yields Err and ends
ProviderNotSet ==
    /\ pc = "generate"
    /\ ~provider
    /\ pc' = "error"
    /\ events' = << >>
    /\ UNCHANGED << agent_vars, goose_mode, messages, response, frontend_requests,
                    remaining_requests, message_tool_response,
                    permission_check_result, enable_extension_request_ids,
                    tool_futures, all_install_successful, cursor, provider_calls,
                    last_provider_result, dispatched, gate_consulted, calls, tools_and_prompt, ext_vars, stream_vars, lock_vars,
                    confirmation_vars, handled, recorded >>

\* Agent::categorize_tool_requests: the requests naming a frontend tool, the
\* others (a request that failed to parse among them)
categorize_tool_requests(resp, fe_tools) ==
    LET fe == { r.id : r \in { q \in Range(resp) :
                                 q.tool_call.ok /\ q.tool_call.name \in fe_tools } }
    IN  [ frontend |-> Filter(resp, fe), remaining |-> Filter(resp, IdsOf(resp) \ fe) ]

\* only the requests left to the agent are recorded
RecordedRemainingOnly(fe_requests, rem_requests) == rem_requests

\* the two loops over &frontend_requests and &remaining_requests
RecordedRequests(fe_requests, rem_requests) == fe_requests \o rem_requests

\* if let Ok(tool_call) = &request.tool_call
ParsedIds(reqs) == { r.id : r \in { q \in Range(reqs) : q.tool_call.ok } }

\* "Record tool calls in the router selector": with a selector, every parsed
\* request is given to record_tool_call, whose Err is logged and nothing more;
\* the result is every (id, outcome) set these calls can leave
RecordToolCalls(selector, fe_requests, rem_requests) ==
    IF selector
    THEN LET ids == ParsedIds(RecordedRequests(fe_requests, rem_requests))
         IN  { { << id, IF id \in failed THEN "Err" ELSE "Ok" >> : id \in ids } :
                 failed \in SUBSET ids }
    ELSE { { } }

\* the loop goes on whatever the number of requests
NoToolRequestsNever(fe_requests, rem_requests) == FALSE

\* num_tool_requests == 0
NoToolRequests(fe_requests, rem_requests) ==
    Len(fe_requests) + Len(rem_requests) = 0

\* Ok((response, usage)) with the usage paid: categorise, yield `first`, then
\* leave the loop when there is no tool request
GenerateOkFrom(first, resps) ==
    /\ pc = "generate"
    /\ provider
    /\ provider_calls < MaxTurns
    /\ \E resp \in resps :
         LET cat == categorize_tool_requests(resp, frontend_tools)
         IN  /\ response' = resp
             /\ frontend_requests' = cat.frontend
             /\ remaining_requests' = cat.remaining
             /\ recorded' \in RecordToolCalls(router_tool_selector, cat.frontend,
                                               cat.remaining)
             /\ pc' = IF NoToolRequests(cat.frontend, cat.remaining)
                      THEN "done" ELSE "frontend"
    /\ events' = first
    /\ provider_calls' = provider_calls + 1
    /\ last_provider_result' = "ok"
    /\ UNCHANGED << agent_vars, goose_mode, messages, message_tool_response,
                    permission_check_result, enable_extension_request_ids,
                    tool_futures, all_install_successful, cursor, dispatched,
                    gate_consulted, calls, tools_and_prompt, ext_vars, stream_vars, lock_vars,
                    confirmation_vars, handled >>

\* the same, the model answering with any response over the tools it is shown
GenerateOkYielding(first) == GenerateOkFrom(first, Responses(frontend_tools))

\* the response is not yielded when it is received
GenerateOkSilent == GenerateOkYielding(<< >>)

\* Ok((response, usage)): yield AgentEvent::Message(filtered_response)
GenerateOk == GenerateOkYielding(<< Message("response", "", << >>, << >>) >>)

\* Ok((response, usage)) and update_session_metrics(..).await? fails: the
\* stream yields the Err and ends before anything of the response is yielded
GenerateSessionMetricsFailed ==
    /\ pc = "generate"
    /\ provider
    /\ provider_calls < MaxTurns
    /\ response' = << >>
    /\ frontend_requests' = << >>
    /\ remaining_requests' = << >>
    /\ events' = << >>
    /\ pc' = "error"
    /\ provider_calls' = provider_calls + 1
    /\ last_provider_result' = "session_metrics_failed"
    /\ UNCHANGED << agent_vars, goose_mode, messages, message_tool_response,
                    permission_check_result, enable_extension_request_ids,
                    tool_futures, all_install_successful, cursor, dispatched,
                    gate_consulted, calls, tools_and_prompt, ext_vars, stream_vars, lock_vars,
                    confirmation_vars, handled, recorded >>

\* the loop goes on after the failure message
AfterPaymentFailedContinue == "generate"

\* break, once "Failed to pay service fee in agent loop" is yielded
AfterPaymentFailed == "done"

\* Ok((response, usage)) and charge_user fails: one message, break
GeneratePaymentFailed ==
    /\ pc = "generate"
    /\ provider
    /\ provider_calls < MaxTurns
    /\ response' = << >>
    /\ frontend_requests' = << >>
    /\ remaining_requests' = << >>
    /\ events' = << Message("payment_failed", "", << >>, << >>) >>
    /\ pc' = AfterPaymentFailed
    /\ provider_calls' = provider_calls + 1
    /\ last_provider_result' = "payment_failed"
    /\ UNCHANGED << agent_vars, goose_mode, messages, message_tool_response,
                    permission_check_result, enable_extension_request_ids,
                    tool_futures, all_install_successful, cursor, dispatched,
                    gate_consulted, calls, tools_and_prompt, ext_vars, stream_vars, lock_vars,
                    confirmation_vars, handled, recorded >>

\* the loop goes on after the guidance message
AfterContextLengthExceededContinue == "generate"

\* break, once the guidance message is yielded
AfterContextLengthExceeded == "done"

\* Err(ProviderError::ContextLengthExceeded(_)): one guidance message, break
GenerateContextLengthExceeded ==
    /\ pc = "generate"
    /\ provider
    /\ provider_calls < MaxTurns
    /\ response' = << >>
    /\ frontend_requests' = << >>
    /\ remaining_requests' = << >>
    /\ events' =
           << Message("context_length_exceeded", "",
                      << "The context length of the model has been exceeded. Please start a new session and try again." >>,
                      << >>) >>
    /\ pc' = AfterContextLengthExceeded
    /\ provider_calls' = provider_calls + 1
    /\ last_provider_result' = "context_length_exceeded"
    /\ UNCHANGED << agent_vars, goose_mode, messages, message_tool_response,
                    permission_check_result, enable_extension_request_ids,
                    tool_futures, all_install_successful, cursor, dispatched,
                    gate_consulted, calls, tools_and_prompt, ext_vars, stream_vars, lock_vars,
                    confirmation_vars, handled, recorded >>

\* the loop goes on after the error message
AfterProviderErrorContinue == "generate"

\* break, once the error message is yielded
AfterProviderError == "done"

\* the text of the message for any other provider error: the error, then the
\* advice to retry
ErrorText(e) == << "Ran into this error", e, "Please retry" >>

\* Err(e): one message with the error text, break
GenerateProviderError ==
    /\ pc = "generate"
    /\ provider
    /\ provider_calls < MaxTurns
    /\ \E e \in ProviderErrors :
         /\ events' = << Message("provider_error", "", ErrorText(e), << >>) >>
         /\ last_provider_result' = e
    /\ response' = << >>
    /\ frontend_requests' = << >>
    /\ remaining_requests' = << >>
    /\ pc' = AfterProviderError
    /\ provider_calls' = provider_calls + 1
    /\ UNCHANGED << agent_vars, goose_mode, messages, message_tool_response,
                    permission_check_result, enable_extension_request_ids,
                    tool_futures, all_install_successful, cursor, dispatched,
                    gate_consulted, calls, tools_and_prompt, ext_vars, stream_vars, lock_vars,
                    confirmation_vars, handled, recorded >>

\* ---- FRONTEND_DISPATCH (Agent::handle_frontend_tool_requests)

FrontendStageOver == pc = "frontend" /\ cursor > Len(frontend_requests)

\* the next frontend request is announced to the caller
FrontendRequest ==
    /\ pc = "frontend"
    /\ cursor <= Len(frontend_requests)
    /\ events' = Append(events,
                        Message("frontend_request", frontend_requests[cursor].id,
                                << >>, << >>))
    /\ pc' = "frontend_wait"
    /\ UNCHANGED << agent_vars, goose_mode, messages, response, frontend_requests,
                    remaining_requests, message_tool_response,
                    permission_check_result, enable_extension_request_ids,
                    tool_futures, all_install_successful, cursor, provider_calls,
                    last_provider_result, dispatched, gate_consulted, calls, tools_and_prompt, ext_vars, stream_vars, lock_vars,
                    confirmation_vars, handled, recorded >>

\* the externally supplied result is folded into the accumulator under the
\* request's id
FrontendResult ==
    /\ pc = "frontend_wait"
    /\ tool_result_ch # << >>
    /\ message_tool_response' =
           with_tool_response(message_tool_response, frontend_requests[cursor].id,
                              Head(tool_result_ch).result)
    /\ tool_result_ch' = Tail(tool_result_ch)
    /\ cursor' = cursor + 1
    /\ pc' = "frontend"
    /\ UNCHANGED << provider, frontend_tools, confirmation_ch, tool_monitor,
                    router_tool_selector, goose_mode, messages, response,
                    frontend_requests, remaining_requests, permission_check_result,
                    enable_extension_request_ids, tool_futures,
                    all_install_successful, events, provider_calls,
                    last_provider_result, dispatched, gate_consulted, calls, tools_and_prompt, ext_vars, stream_vars, lock_vars,
                    confirmation_vars, handled, recorded >>

\* Agent::handle_tool_result: the frontend reports the result of the request
\* it was asked to run
HandleToolResult ==
    /\ pc = "frontend_wait"
    /\ tool_result_ch = << >>
    /\ Len(tool_result_ch) < CHANNEL_CAPACITY
    /\ \E result \in { "ok", "err" } :
         tool_result_ch' =
             Append(tool_result_ch,
                    [ id |-> frontend_requests[cursor].id, result |-> result ])
    /\ UNCHANGED << provider, frontend_tools, confirmation_ch, tool_monitor,
                    router_tool_selector, reply_vars, calls, tools_and_prompt, ext_vars, stream_vars, lock_vars,
                    confirmation_vars >>

\* ---- MODE_BRANCH

\* the mode is never taken for chat
IsChatModeNever(mode) == mode = "Chat"

\* mode.as_str() == "chat"
IsChatMode(mode) == mode = "chat"

RECURSIVE WithResponses(_, _, _)
\* the accumulator after a for loop gave `content` to every request of `reqs`
WithResponses(msg, reqs, content) ==
    IF reqs = << >> THEN msg
    ELSE WithResponses(with_tool_response(msg, Head(reqs).id, content),
                       Tail(reqs), content)

\* chat mode: every remaining request gets the skipped response
ChatSkip ==
    /\ FrontendStageOver
    /\ IsChatMode(goose_mode)
    /\ message_tool_response' =
           WithResponses(message_tool_response, remaining_requests,
                         CHAT_MODE_TOOL_SKIPPED_RESPONSE)
    /\ pc' = "emit"
    /\ UNCHANGED << agent_vars, goose_mode, messages, response, frontend_requests,
                    remaining_requests, permission_check_result,
                    enable_extension_request_ids, tool_futures,
                    all_install_successful, cursor, events, provider_calls,
                    last_provider_result, dispatched, gate_consulted, calls, tools_and_prompt, ext_vars, stream_vars, lock_vars,
                    confirmation_vars, handled, recorded >>

\* ---- PERMISSION_CHECK (permission_judge::check_tool_permissions)

\* what the judge can say of a request: a request that did not parse names no
\* tool to ask the user about
Verdicts(request) ==
    IF request.tool_call.ok THEN { "approved", "denied", "needs_approval" }
    ELSE { "approved", "denied" }

\* every way of putting each request in exactly one of the three lists
Classifications(reqs) ==
    { v \in [ IdsOf(reqs) -> { "approved", "denied", "needs_approval" } ] :
        \A r \in Range(reqs) : v[r.id] \in Verdicts(r) }

PermissionCheckResult(reqs, v) ==
    [ approved |-> Filter(reqs, { id \in IdsOf(reqs) : v[id] = "approved" }),
      denied |-> Filter(reqs, { id \in IdsOf(reqs) : v[id] = "denied" }),
      needs_approval |->
          Filter(reqs, { id \in IdsOf(reqs) : v[id] = "needs_approval" }) ]

\* the needs-approval requests that enable an extension
EnableExtensionRequestIds(needs_approval) ==
    { r.id : r \in { q \in Range(needs_approval) :
                       q.tool_call.name = PLATFORM_MANAGE_EXTENSIONS_TOOL_NAME } }

PermissionCheck ==
    /\ FrontendStageOver
    /\ ~IsChatMode(goose_mode)
    /\ \E v \in Classifications(remaining_requests) :
         LET res == PermissionCheckResult(remaining_requests, v)
         IN  /\ permission_check_result' = res
             /\ enable_extension_request_ids' =
                    EnableExtensionRequestIds(res.needs_approval)
    /\ gate_consulted' = TRUE
    /\ tool_futures' = << >>
    /\ cursor' = 1
    /\ pc' = "approved"
    /\ UNCHANGED << agent_vars, goose_mode, messages, response, frontend_requests,
                    remaining_requests, message_tool_response,
                    all_install_successful, events, provider_calls,
                    last_provider_result, dispatched, calls, tools_and_prompt, ext_vars, stream_vars, lock_vars,
                    confirmation_vars, handled, recorded >>

\* ---- approved requests: dispatched at once, their streams queued

\* the loop runs over every remaining request
ApprovedRequestsUnfiltered == remaining_requests

\* for request in &permission_check_result.approved
ApprovedRequests == permission_check_result.approved

\* self.dispatch_tool_call(tool_call, request.id).await, and the push of the
\* call's tagged stream on tool_futures
DispatchAndQueue(request) ==
    \E out \in dispatch_tool_call(tool_monitor, request.tool_call, frontend_tools,
                                  router_tool_selector) :
       /\ tool_monitor' = out.monitor
       /\ tool_futures' = Append(tool_futures, TaggedStream(request.id, out.result))
       /\ dispatched' = dispatched \cup { request.id }
       /\ handled' = IF out.result.branch = "monitor" THEN handled
                     ELSE handled \cup { request.id }

\* one round of the loop over the approved requests: a request whose call did
\* not parse is passed over
DispatchApproved ==
    /\ pc = "approved"
    /\ cursor <= Len(ApprovedRequests)
    /\ LET request == ApprovedRequests[cursor]
       IN  IF request.tool_call.ok
           THEN DispatchAndQueue(request)
           ELSE UNCHANGED << tool_monitor, tool_futures, dispatched, handled >>
    /\ cursor' = cursor + 1
    /\ UNCHANGED << provider, frontend_tools, confirmation_ch, tool_result_ch,
                    router_tool_selector, pc, goose_mode, messages, response,
                    frontend_requests, remaining_requests, message_tool_response,
                    permission_check_result, enable_extension_request_ids,
                    all_install_successful, events, provider_calls,
                    last_provider_result, gate_consulted, calls, tools_and_prompt,
                    ext_vars, stream_vars, lock_vars, confirmation_vars, recorded >>

\* for request in &permission_check_result.denied: the declined response;
\* then the approval stage is set up
ResolveDenied ==
    /\ pc = "approved"
    /\ cursor > Len(ApprovedRequests)
    /\ message_tool_response' =
           WithResponses(message_tool_response, permission_check_result.denied,
                         DECLINED_RESPONSE)
    /\ cursor' = 1
    /\ pc' = "approval"
    /\ UNCHANGED << agent_vars, goose_mode, messages, response, frontend_requests,
                    remaining_requests, permission_check_result,
                    enable_extension_request_ids, tool_futures,
                    all_install_successful, events, provider_calls,
                    last_provider_result, dispatched, gate_consulted, calls, tools_and_prompt, ext_vars, stream_vars, lock_vars,
                    confirmation_vars, handled, recorded >>

\* ---- APPROVAL_WAIT (Agent::handle_approval_tool_requests)

\* the next needs-approval request is shown to the caller
ApprovalPrompt ==
    /\ pc = "approval"
    /\ cursor <= Len(permission_check_result.needs_approval)
    /\ events' = Append(events,
                        Message("confirmation_request",
                                permission_check_result.needs_approval[cursor].id,
                                << >>, << >>))
    /\ pc' = "approval_wait"
    /\ UNCHANGED << agent_vars, goose_mode, messages, response, frontend_requests,
                    remaining_requests, message_tool_response,
                    permission_check_result, enable_extension_request_ids,
                    tool_futures, all_install_successful, cursor, provider_calls,
                    last_provider_result, dispatched, gate_consulted, calls, tools_and_prompt, ext_vars, stream_vars, lock_vars,
                    confirmation_vars, handled, recorded >>

\* the head of the channel, whatever request it is for
FirstInChannel(ch, id) == IF ch # << >> THEN 1 ELSE 0

\* the position in the channel of the first confirmation for `id`, 0 if none
FirstFor(ch, id) ==
    IF \E i \in DOMAIN ch : ch[i].request_id = id
    THEN CHOOSE i \in DOMAIN ch :
             /\ ch[i].request_id = id
             /\ \A j \in 1..(i - 1) : ch[j].request_id # id
    ELSE 0

\* every confirmation is taken for an approval
IsApprovingAlways(permission) == TRUE

\* the confirmation allows the call
IsApproving(permission) == permission = "AllowOnce"

\* the confirmation with the request's id has arrived: the call is dispatched
\* and queued, or the denial is recorded
ApprovalConfirmed ==
    /\ pc = "approval_wait"
    /\ LET request == permission_check_result.needs_approval[cursor]
           i == FirstFor(confirmation_ch, request.id)
       IN  /\ i > 0
           /\ confirmation_ch' = RemoveAt(confirmation_ch, i)
           /\ IF IsApproving(confirmation_ch[i].permission)
              THEN /\ DispatchAndQueue(request)
                   /\ UNCHANGED message_tool_response
              ELSE /\ message_tool_response' =
                          with_tool_response(message_tool_response, request.id,
                                             DECLINED_RESPONSE)
                   /\ UNCHANGED << tool_monitor, tool_futures, dispatched,
                                   handled >>
    /\ cursor' = cursor + 1
    /\ pc' = "approval"
    /\ UNCHANGED << provider, frontend_tools, tool_result_ch, router_tool_selector,
                    goose_mode, messages, response, frontend_requests,
                    remaining_requests, permission_check_result,
                    enable_extension_request_ids, all_install_successful, events,
                    provider_calls, last_provider_result, gate_consulted, calls,
                    tools_and_prompt, ext_vars, stream_vars, lock_vars, confirmation_vars,
                    recorded >>

\* Agent::handle_confirmation: the caller answers, once and in any order, the
\* needs-approval requests of the turn; a full channel suspends the sender
HandleConfirmation ==
    /\ pc \in { "approval", "approval_wait" }
    /\ Len(confirmation_ch) < CHANNEL_CAPACITY
    /\ \E i \in DOMAIN permission_check_result.needs_approval :
         \E permission \in { "AllowOnce", "DenyOnce" } :
            LET id == permission_check_result.needs_approval[i].id
            IN  /\ i >= cursor
                /\ FirstFor(confirmation_ch, id) = 0
                /\ confirmation_ch' =
                       Append(confirmation_ch,
                              [ request_id |-> id, permission |-> permission ])
    /\ UNCHANGED << provider, frontend_tools, tool_result_ch, tool_monitor,
                    router_tool_selector, reply_vars, calls, tools_and_prompt, ext_vars, stream_vars, lock_vars,
                    confirmation_vars >>

\* ---- COLLECT: the merge of the queued streams

\* the approval stage is over: the streams are merged
StartCollect ==
    /\ pc = "approval"
    /\ cursor > Len(permission_check_result.needs_approval)
    /\ all_install_successful' = TRUE
    /\ pc' = "collect"
    /\ UNCHANGED << agent_vars, goose_mode, messages, response, frontend_requests,
                    remaining_requests, message_tool_response,
                    permission_check_result, enable_extension_request_ids,
                    tool_futures, cursor, events, provider_calls,
                    last_provider_result, dispatched, gate_consulted, calls, tools_and_prompt, ext_vars, stream_vars, lock_vars,
                    confirmation_vars, handled, recorded >>

\* the notifications yielded so far in this turn
Notified == Cardinality({ i \in DOMAIN events : events[i].type = "McpNotification" })

\* the messages taken so far from the notification stream of the call `id`
Taken(id) ==
    Cardinality({ i \in DOMAIN events :
                    /\ events[i].type = "McpNotification"
                    /\ events[i].text[1] = id })

\* every item is tagged with the id of the first stream of the queue
WithFirstId(request_id, futures) == futures[1].id

\* stream.map(move |item| (request_id.clone(), item))
WithId(request_id, futures) == request_id

\* ToolStreamItem::Message from one of the streams: the next message of that
\* stream, under the id its stream was tagged with
CollectMessage ==
    /\ pc = "collect"
    /\ \E i \in DOMAIN tool_futures :
         LET id == tool_futures[i].id
         IN  /\ tool_futures[i].notifications
             /\ Notified < MaxNotifications
             /\ events' =
                    Append(events,
                           McpNotification(WithId(id, tool_futures),
                                           JsonRpcMessage(id, Taken(id) + 1)))
    /\ UNCHANGED << agent_vars, pc, goose_mode, messages, response,
                    frontend_requests, remaining_requests, message_tool_response,
                    permission_check_result, enable_extension_request_ids,
                    tool_futures, all_install_successful, cursor, provider_calls,
                    last_provider_result, dispatched, gate_consulted, calls, tools_and_prompt, ext_vars, stream_vars, lock_vars,
                    confirmation_vars, handled, recorded >>

\* the result of any call that failed counts as a failed install
InstallFailedAnyCall(request_id, output, ids) == output = "err"

\* enable_extension_request_ids.contains(&request_id) && output.is_err()
InstallFailed(request_id, output, ids) == request_id \in ids /\ output = "err"

\* ToolStreamItem::Result from one of the streams, which ends with it
CollectResult ==
    /\ pc = "collect"
    /\ \E i \in DOMAIN tool_futures :
         \E output \in tool_futures[i].outcomes :
            LET request_id == tool_futures[i].id
            IN  /\ all_install_successful' =
                       IF InstallFailed(request_id, output,
                                        enable_extension_request_ids)
                       THEN FALSE ELSE all_install_successful
                /\ message_tool_response' =
                       with_tool_response(message_tool_response, request_id, output)
                /\ tool_futures' = RemoveAt(tool_futures, i)
    /\ UNCHANGED << agent_vars, pc, goose_mode, messages, response,
                    frontend_requests, remaining_requests, permission_check_result,
                    enable_extension_request_ids, cursor, events, provider_calls,
                    last_provider_result, dispatched, gate_consulted, calls, tools_and_prompt, ext_vars, stream_vars, lock_vars,
                    confirmation_vars, handled, recorded >>

\* the loop over the merged stream ends at the first item
CollectOverAtOnce == TRUE

\* self.prepare_tools_and_prompt(): the tools and the prompt as they are in
\* the iteration `turn` of the loop (0: before the loop)
prepare_tools_and_prompt(turn) == turn

\* combined.next() returns None: every stream has ended
CollectOver == tool_futures = << >>

\* the merged stream is exhausted (and the tools and prompt are prepared again
\* when all_install_successful)
FinishCollect ==
    /\ pc = "collect"
    /\ CollectOver
    /\ tools_and_prompt' = IF all_install_successful
                           THEN prepare_tools_and_prompt(provider_calls)
                           ELSE tools_and_prompt
    /\ pc' = "emit"
    /\ UNCHANGED << agent_vars, goose_mode, messages, response, frontend_requests,
                    remaining_requests, message_tool_response,
                    permission_check_result, enable_extension_request_ids,
                    tool_futures, all_install_successful, cursor, events,
                    provider_calls, last_provider_result, dispatched,
                    gate_consulted, calls, ext_vars, stream_vars, lock_vars,
                    confirmation_vars, handled, recorded >>

\* ---- the `?` of the tool stages

\* an Err from frontend_tool_stream.try_next(), from
\* tool_approval_stream.try_next() or from prepare_tools_and_prompt(): the
\* stream yields the Err and ends, whatever is queued in tool_futures is dropped
\* with the generator
PropagateError ==
    /\ \/ pc = "frontend" /\ cursor <= Len(frontend_requests)
       \/ pc = "frontend_wait"
       \/ pc = "approval" /\ cursor <= Len(permission_check_result.needs_approval)
       \/ pc = "approval_wait"
       \/ pc = "collect" /\ CollectOver /\ all_install_successful
    /\ pc' = "error"
    /\ UNCHANGED << agent_vars, goose_mode, messages, response, frontend_requests,
                    remaining_requests, message_tool_response,
                    permission_check_result, enable_extension_request_ids,
                    tool_futures, all_install_successful, cursor, events,
                    provider_calls, last_provider_result, dispatched,
                    gate_consulted, calls, tools_and_prompt, ext_vars, stream_vars, lock_vars,
                    confirmation_vars, handled, recorded >>

\* ---- APPEND

\* the filtered response, which went to the caller, is pushed
PushedFilteredResponse(raw, filtered) == filtered

\* messages.push(response): the response as the provider returned it
PushedResponse(raw, filtered) == raw

\* yield the accumulator, push the raw response and the accumulator on the
\* history, loop
EmitToolResponse ==
    /\ pc = "emit"
    /\ events' = Append(events,
                        Message("tool_response", "", << >>, message_tool_response))
    /\ messages' = messages
                   \o << HistoryEntry("response", provider_calls,
                                      PushedResponse(response, remaining_requests)),
                         HistoryEntry("tool_response", provider_calls,
                                      message_tool_response) >>
    /\ pc' = "yield"
    /\ UNCHANGED << agent_vars, goose_mode, response, frontend_requests,
                    remaining_requests, message_tool_response,
                    permission_check_result, enable_extension_request_ids,
                    tool_futures, all_install_successful, cursor, provider_calls,
                    last_provider_result, dispatched, gate_consulted, calls, tools_and_prompt, ext_vars, stream_vars, lock_vars,
                    confirmation_vars, handled, recorded >>

\* tokio::task::yield_now() at the end of the iteration; the next iteration
\* starts with fresh locals
LoopBack ==
    /\ pc = "yield"
    /\ pc' = "generate"
    /\ NewIteration
    /\ messages' = Summarised(messages)
    /\ UNCHANGED << agent_vars, goose_mode, provider_calls, calls,
                    tools_and_prompt, ext_vars, stream_vars, lock_vars, confirmation_vars >>

Next ==
    \/ UpdateProvider
    \/ AddFrontendExtension
    \/ Reply
    \/ ProviderNotSet
    \/ GenerateOk
    \/ GenerateSessionMetricsFailed
    \/ GeneratePaymentFailed
    \/ GenerateContextLengthExceeded
    \/ GenerateProviderError
    \/ FrontendRequest
    \/ HandleToolResult
    \/ FrontendResult
    \/ ChatSkip
    \/ PermissionCheck
    \/ DispatchApproved
    \/ ResolveDenied
    \/ ApprovalPrompt
    \/ HandleConfirmation
    \/ ApprovalConfirmed
    \/ StartCollect
    \/ CollectMessage
    \/ CollectResult
    \/ FinishCollect
    \/ PropagateError
    \/ EmitToolResponse
    \/ LoopBack

Spec == Init /\ [][Next]_vars

\* the provider call returning, in any of its ways
ProviderReturns ==
    \/ ProviderNotSet
    \/ GenerateOk
    \/ GenerateSessionMetricsFailed
    \/ GeneratePaymentFailed
    \/ GenerateContextLengthExceeded
    \/ GenerateProviderError

\* a queued stream giving its next item: the terminal future of a dispatched
\* call resolves
FutureResolves ==
    \/ CollectMessage
    \/ CollectResult

\* the steps reply() makes by itself once it is polled
TurnStep ==
    \/ FrontendRequest
    \/ FrontendResult
    \/ ChatSkip
    \/ PermissionCheck
    \/ DispatchApproved
    \/ ResolveDenied
    \/ ApprovalPrompt
    \/ ApprovalConfirmed
    \/ StartCollect
    \/ FinishCollect
    \/ EmitToolResponse
    \/ LoopBack

\* reply() polled to its end by a fair executor, with a provider that
\* returns, futures that resolve, and a caller that supplies every frontend
\* result and every confirmation
SpecProgress ==
    /\ Init
    /\ [][Next]_vars
    /\ WF_vars(ProviderReturns)
    /\ WF_vars(FutureResolves)
    /\ WF_vars(HandleToolResult)
    /\ WF_vars(HandleConfirmation)
    /\ WF_vars(TurnStep)

\* ---- reply() of an agent set up with a repetition monitor and, under a
\* vector or llm strategy, a router tool selector

\* the calls the model asks for there: an extension tool, the router's search
\* tool and a platform resource tool
RoutedToolCalls ==
    { ParsedCall(n, 1) : n \in { ExtensionToolName, ROUTER_VECTOR_SEARCH_TOOL_NAME,
                                 PLATFORM_READ_RESOURCE_TOOL_NAME } }

RoutedResponses ==
    UNION { { [ i \in 1..n |-> ToolRequest(RequestIds[i], f[i]) ] :
                f \in [ 1..n -> RoutedToolCalls ] } : n \in 0..MaxRequests }

GenerateOkRouted ==
    GenerateOkFrom(<< Message("response", "", << >>, << >>) >>, RoutedResponses)

NextConfigured ==
    \/ ConfigureToolMonitor
    \/ UpdateProvider
    \/ UpdateProviderWithRouter
    \/ Reply
    \/ GenerateOkRouted
    \/ ChatSkip
    \/ PermissionCheck
    \/ DispatchApproved
    \/ ResolveDenied
    \/ ApprovalPrompt
    \/ HandleConfirmation
    \/ ApprovalConfirmed
    \/ StartCollect
    \/ CollectMessage
    \/ CollectResult
    \/ FinishCollect
    \/ PropagateError
    \/ EmitToolResponse
    \/ LoopBack

SpecConfigured == Init /\ [][NextConfigured]_vars

\* ---- reply() of an agent whose provider came with a router tool selector
\* (vector or llm strategy), with or without frontend tools

NextRouted ==
    \/ UpdateProviderWithRouter
    \/ AddFrontendExtension
    \/ Reply
    \/ GenerateOk
    \/ FrontendRequest
    \/ HandleToolResult
    \/ FrontendResult
    \/ ChatSkip
    \/ PermissionCheck
    \/ DispatchApproved
    \/ ResolveDenied
    \/ ApprovalPrompt
    \/ HandleConfirmation
    \/ ApprovalConfirmed
    \/ StartCollect
    \/ CollectMessage
    \/ CollectResult
    \/ FinishCollect
    \/ EmitToolResponse
    \/ LoopBack

SpecRouted == Init /\ [][NextRouted]_vars

\* ------------------------------------------------------------ properties

\* the aggregated tool-response messages yielded in the current iteration
ToolResponseEvents == { i \in DOMAIN events : events[i].kind = "tool_response" }

\* the entries of accumulator `msg` for request `id`
EntriesFor(msg, id) == { j \in DOMAIN msg : msg[j].id = id }

\* the iteration is past the response and works on its tool requests
InToolStages ==
    pc \in { "frontend", "frontend_wait", "approved", "approval", "approval_wait",
             "collect", "emit" }

\* C1: the aggregated tool-response message of a turn holds exactly one entry
\* for every request id of the turn's model response (a request whose call
\* failed to parse included): no id is missing, no id is there twice.
C1_OneEntryPerRequestId ==
    \A i \in ToolResponseEvents :
        /\ IdsOf(events[i].body) = IdsOf(response)
        /\ Len(events[i].body) = Len(response)

\* C2: in every turn the filtered model response is yielded before any
\* McpNotification and before the aggregated tool-response message.
C2_ResponseBeforeToolEvents ==
    \A i \in DOMAIN events :
        (events[i].type = "McpNotification" \/ events[i].kind = "tool_response")
            => \E j \in 1..(i - 1) : events[j].kind = "response"

C2_Witness ==
    \E i \in DOMAIN events : \E j \in ToolResponseEvents :
        /\ events[i].type = "McpNotification"
        /\ i < j

C4_DeniedNeverDispatched ==
    \A r \in Range(permission_check_result.denied) :
        /\ r.id \notin dispatched
        /\ \A s \in Range(tool_futures) : s.id # r.id
        /\ \A i \in DOMAIN events :
              events[i].type = "McpNotification" => events[i].id # r.id
        /\ \A j \in EntriesFor(message_tool_response, r.id) :
              message_tool_response[j].content = DECLINED_RESPONSE
        /\ pc \in { "approval", "approval_wait", "collect", "emit", "yield" }
              => Cardinality(EntriesFor(message_tool_response, r.id)) = 1

C4_Witness ==
    /\ pc = "yield"
    /\ permission_check_result.denied # << >>
    /\ dispatched # { }
    /\ \E i \in DOMAIN events : events[i].type = "McpNotification"

\* C5: in chat mode no remaining request is dispatched, the permission gate
\* is not consulted, and the accumulator gives every remaining request the
\* skipped response.
C5_ChatModeSkipsAll ==
    goose_mode = "chat" =>
        /\ dispatched = { }
        /\ tool_futures = << >>
        /\ ~gate_consulted
        /\ pc \in { "emit", "yield" } =>
              \A r \in Range(remaining_requests) :
                  /\ Cardinality(EntriesFor(message_tool_response, r.id)) = 1
                  /\ \A j \in EntriesFor(message_tool_response, r.id) :
                        message_tool_response[j].content
                            = CHAT_MODE_TOOL_SKIPPED_RESPONSE

C5_Witness ==
    /\ goose_mode = "chat"
    /\ pc = "yield"
    /\ IdsOf(remaining_requests) = { "a", "b" }

ContextLengthExceededMessage ==
    Message("context_length_exceeded", "",
            << "The context length of the model has been exceeded. Please start a new session and try again." >>,
            << >>)

NothingAfterContextLengthExceeded ==
    last_provider_result = "context_length_exceeded"
        => UNCHANGED << pc, events, provider_calls, dispatched, messages,
                        tool_monitor, tool_futures >>

\* C6: when the provider returns ContextLengthExceeded the iteration yields
\* the guidance message and nothing else, the stream is over, and from then
\* on there is no provider call, no dispatch, no append to the history and no
\* further event.
C6_ContextLengthExceededEndsLoop ==
    /\ [](last_provider_result = "context_length_exceeded"
            => /\ pc = "done"
               /\ events = << ContextLengthExceededMessage >>
               /\ dispatched = { })
    /\ [][NothingAfterContextLengthExceeded]_vars

C6_Witness ==
    /\ last_provider_result = "context_length_exceeded"
    /\ provider_calls = 2
    /\ Len(messages) = 3

NothingAfterProviderError ==
    last_provider_result \in ProviderErrors
        => UNCHANGED << pc, events, provider_calls, dispatched, messages,
                        tool_monitor, tool_futures >>

\* C7: when the provider returns any other error the iteration yields one
\* message with the error text and the advice to retry and nothing else, the
\* stream is over, and the provider is not called again.
C7_ProviderErrorEndsLoop ==
    /\ [](last_provider_result \in ProviderErrors
            => /\ pc = "done"
               /\ Len(events) = 1
               /\ events[1].kind = "provider_error"
               /\ last_provider_result \in Range(events[1].text)
               /\ "Please retry" \in Range(events[1].text))
    /\ [][NothingAfterProviderError]_vars

C7_Witness ==
    /\ last_provider_result \in ProviderErrors
    /\ provider_calls = 2
    /\ Len(messages) = 3

\* the model's response was categorised into no request at all
ZeroRequests ==
    /\ last_provider_result = "ok"
    /\ frontend_requests = << >>
    /\ remaining_requests = << >>

NothingAfterZeroRequests ==
    ZeroRequests
        => UNCHANGED << pc, events, provider_calls, dispatched, messages,
                        message_tool_response, tool_futures >>

\* C8: a response with zero tool requests after categorisation is yielded and
\* ends the loop: the iteration yields nothing but the filtered response, no
\* accumulator message, nothing is appended to the history and the provider
\* is not called again.
C8_ZeroRequestsEndsLoop ==
    /\ [](ZeroRequests
            => /\ pc = "done"
               /\ events = << Message("response", "", << >>, << >>) >>
               /\ message_tool_response = << >>)
    /\ [][NothingAfterZeroRequests]_vars

C8_Witness ==
    /\ ZeroRequests
    /\ pc = "done"
    /\ provider_calls = 2
    /\ Len(messages) = 3

\* the call was made beyond the configured maximum of its own fingerprint
BeyondMaximum(fp) ==
    /\ tool_monitor.configured
    /\ tool_monitor.max_repetitions # NoMax
    /\ calls.attempts[fp] > tool_monitor.max_repetitions

\* C9: with a maximum M configured, a dispatch is rejected with the repetition
\* error exactly when it is beyond the M-th of its own fingerprint; what other
\* fingerprints were dispatched plays no part.
C9_RepetitionLimit ==
    calls.total > 0 =>
        ((calls.last.result = RepetitionRejected)
            <=> BeyondMaximum(Fingerprint(calls.last.call)))

C9_Witness ==
    /\ calls.total > 0
    /\ calls.last.result # RepetitionRejected
    /\ \E fp \in Fingerprints :
          /\ fp # Fingerprint(calls.last.call)
          /\ BeyondMaximum(fp)

\* C10: get_tool_stats reports, for every fingerprint, the number of dispatch
\* attempts made since the monitor was configured or reset, the rejected
\* ones included.
C10_StatsCountEveryAttempt ==
    tool_monitor.configured =>
        /\ get_tool_stats(tool_monitor).some
        /\ \A fp \in Fingerprints :
              get_tool_stats(tool_monitor).stats[fp] = calls.attempts[fp]

C10_Witness ==
    /\ tool_monitor.configured
    /\ tool_monitor.max_repetitions = 2
    /\ calls.total > 0
    /\ calls.last.result = RepetitionRejected
    /\ calls.attempts[Fingerprint(calls.last.call)] = 3

\* the platform handler that answers to a platform tool name
PlatformBranch(name) ==
    IF name = PLATFORM_MANAGE_EXTENSIONS_TOOL_NAME THEN "manage_extensions"
    ELSE IF name = PLATFORM_READ_RESOURCE_TOOL_NAME THEN "read_resource"
    ELSE IF name = PLATFORM_LIST_RESOURCES_TOOL_NAME THEN "list_resources"
    ELSE IF name = PLATFORM_SEARCH_AVAILABLE_EXTENSIONS_TOOL_NAME
    THEN "search_available_extensions"
    ELSE "none"

\* C11: a call bearing a platform tool name that passed the repetition check
\* is answered by the platform handler of that name, never by the frontend
\* branch, the router branch or the generic extension dispatch, whatever the
\* frontend-tool table holds.
C11_PlatformNamesRoutedToPlatform ==
    (/\ calls.total > 0
     /\ PlatformBranch(calls.last.call.name) # "none"
     /\ calls.last.result # RepetitionRejected)
        => calls.last.result.branch = PlatformBranch(calls.last.call.name)

C11_Witness ==
    /\ calls.total > 0
    /\ calls.last.call.name = PLATFORM_READ_RESOURCE_TOOL_NAME
    /\ PLATFORM_READ_RESOURCE_TOOL_NAME \in frontend_tools
    /\ tool_monitor.configured
    /\ calls.last.result.branch = "read_resource"

\* the text manage_extensions returns when the index cannot be updated
IndexFailure == Failure("Failed to update vector index")

\* C12: a manage_extensions call with action "enable" whose install succeeded
\* returns the text "has been installed successfully" for its extension (or,
\* after an index update, the failure of that update), and until it has
\* returned it can take its next step; with the router enabled that step is
\* the index update "add".
C12_EnableReturnsInstalled ==
    (op = "manage_extensions" /\ action = "enable" /\ op_mutated)
        => \/ /\ op_pc = "returned"
              /\ \/ op_result = Installed(extension_name)
                 \/ /\ op_result = IndexFailure
                    /\ << "add", extension_name >> \in Range(index_updates)
           \/ /\ op_pc # "returned"
              /\ ENABLED ExtensionStep

\* C13: in manage_extensions, once the install has succeeded and the router is
\* found enabled, the index update follows: the call goes on to take the
\* extension manager and to update the index, whose failure it then returns
\* with the extension still installed.
C13_IndexUpdateFollowsMutation ==
    (/\ op = "manage_extensions"
     /\ op_mutated
     /\ extension_name \in extensions
     /\ op_pc \in { "index_lock", "indexing" })
        => ENABLED (IndexLock \/ UpdateExtensionTools)

\* C14: a manage_extensions call with action "disable" whose removal succeeds
\* while the router is enabled does not return before an index update
\* "remove" for its extension has been issued.
DisabledWithoutIndexUpdate ==
    (/\ op = "manage_extensions"
     /\ action = "disable"
     /\ router_tool_selector
     /\ op_pc = "locked"
     /\ op_mutated'
     /\ op_pc' = "returned")
        => << "remove", extension_name >> \in Range(index_updates')

C14_DisableUpdatesIndex == [][DisabledWithoutIndexUpdate]_vars

\* C15: Agent::remove_extension, once its removal has succeeded, has returned
\* or can take its next step; when the router was found enabled it has
\* returned only after an index update "remove" for its extension.
C15_RemoveExtensionReturns ==
    (op = "remove_extension" /\ op_mutated)
        => \/ /\ op_pc = "returned"
              /\ \/ index_updates = << >>
                 \/ index_updates = << << "remove", extension_name >> >>
           \/ /\ op_pc # "returned"
              /\ ENABLED ExtensionStep

\* the accumulator holds no error for an extension-enabling request
NoFailedInstall ==
    \A e \in Range(message_tool_response) :
        e.id \in enable_extension_request_ids => e.content # "err"

\* the step that leaves the merge of an agentic turn
CollectLeft == pc = "collect" /\ pc' = "emit"

RefreshOnlyAfterInstalls ==
    /\ CollectLeft =>
           ((tools_and_prompt' # tools_and_prompt) <=> NoFailedInstall)
    /\ ~CollectLeft => tools_and_prompt' = tools_and_prompt

\* C16: the tools and the prompt are prepared again at the end of the merge of
\* an agentic turn exactly when no extension-enabling request of the turn has an
\* error result; an error of such a request leaves them as they were, errors of
\* other calls do not, and nothing else changes them.
C16_RefreshOnlyAfterInstalls == [][RefreshOnlyAfterInstalls]_vars

\* an extension-enabling request failed next to a call that succeeded: the
\* turn emits its tool response with the tools and prompt of before
C16_Witness ==
    /\ pc = "emit"
    /\ ~NoFailedInstall
    /\ \E e \in Range(message_tool_response) :
          e.id \notin enable_extension_request_ids /\ e.content = "ok"
    /\ tools_and_prompt # provider_calls

\* the positions of the Result items of the sequence
ResultItems == { i \in DOMAIN ts_items : ts_items[i][1] = "Result" }

NotificationsOf(evs) == { i \in DOMAIN evs : evs[i].type = "McpNotification" }

\* every notification carries the id of the call whose stream it came from,
\* and the messages of one call come in the order of its stream
InCallOrder(evs) ==
    /\ \A i \in NotificationsOf(evs) : evs[i].id = evs[i].text[1]
    /\ \A i, j \in NotificationsOf(evs) :
          (i < j /\ evs[i].text[1] = evs[j].text[1])
              => evs[i].text[2] < evs[j].text[2]

\* a notification is yielded by this step
NotificationYielded ==
    /\ Len(events') = Len(events) + 1
    /\ events'[Len(events')].type = "McpNotification"

MergedStream ==
    /\ InCallOrder(events')
    /\ NotificationYielded =>
           /\ pc = "collect"
           /\ events'[Len(events')].text[1] \in IdsOf(tool_futures)
           /\ \A e \in Range(message_tool_response) :
                 e.id # events'[Len(events')].text[1]
    /\ (pc = "collect" /\ pc' = "emit") => tool_futures = << >>
    /\ (pc = "collect" /\ tool_futures = << >>) => pc' # "collect"

C19_SuccessfulResultsPostProcessed ==
    (/\ calls.total > 0
     /\ calls.last.result.outer = "Ok"
     /\ "ok" \in calls.last.result.outcomes)
        => calls.last.result.processed

\* the positions in the channel of the confirmations for `id`
ConfirmationsFor(id) ==
    { k \in DOMAIN confirmation_ch : confirmation_ch[k].request_id = id }

\* the needs-approval request the stage is waiting on
Awaited == permission_check_result.needs_approval[cursor].id

\* the waiting request is resolved by this step
ApprovalResolved == pc = "approval_wait" /\ pc' = "approval"

ResolvedByOwnConfirmation ==
    /\ (pc = "approval_wait" /\ ConfirmationsFor(Awaited) = { })
           => /\ pc' \in { "approval_wait", "error" }
              /\ dispatched' = dispatched
              /\ tool_futures' = tool_futures
              /\ message_tool_response' = message_tool_response
    /\ ApprovalResolved
           => \E k \in ConfirmationsFor(Awaited) :
                 /\ confirmation_ch' = RemoveAt(confirmation_ch, k)
                 /\ IF confirmation_ch[k].permission = "AllowOnce"
                    THEN /\ Awaited \in dispatched'
                         /\ Awaited \in IdsOf(tool_futures')
                         /\ message_tool_response' = message_tool_response
                    ELSE /\ Awaited \notin dispatched'
                         /\ tool_futures' = tool_futures
                         /\ message_tool_response' =
                                with_tool_response(message_tool_response, Awaited,
                                                   DECLINED_RESPONSE)

C21_BoundedInOrder ==
    /\ Len(confirmation_ch) <= CHANNEL_CAPACITY
    /\ Len(confirmation_ch) = cf_sent - cf_received
    /\ \A i \in DOMAIN confirmation_ch :
          confirmation_ch[i] = Confirmation(cf_received + i)
    /\ cf_pending # << >> =>
          /\ cf_pending[1] = cf_sent + 1
          /\ ENABLED HandleConfirmationSent
                 <=> Len(confirmation_ch) < CHANNEL_CAPACITY

\* a call that found the channel full has delivered its confirmation, which
\* waits in the channel behind the ones supplied before it
C21_Witness ==
    /\ cf_resumed
    /\ cf_sent > CHANNEL_CAPACITY
    /\ Len(confirmation_ch) = CHANNEL_CAPACITY
    /\ cf_pending = << >>


\* ------------------------------------------------------------------- C22

\* the request of the turn with the id `id`
RequestOf(id) == CHOOSE r \in Range(remaining_requests) : r.id = id

\* the step takes from the channel an approving confirmation for `id`
ConfirmationConsumed(id) ==
    \E i \in DOMAIN confirmation_ch :
       /\ i = FirstFor(confirmation_ch, id)
       /\ IsApproving(confirmation_ch[i].permission)
       /\ confirmation_ch' = RemoveAt(confirmation_ch, i)

\* a handler (platform, router select_tools, extension dispatch) runs in a step
\* only for a call the monitor lets through, of a request the gate approved
\* or whose approving confirmation the step consumes
HandlerGuarded ==
    \A id \in handled' \ handled :
       LET request == RequestOf(id)
       IN  /\ request.tool_call.ok
           /\ MonitorCheck(tool_monitor, request.tool_call).allowed
           /\ gate_consulted
           /\ \/ /\ pc = "approved"
                 /\ id \in IdsOf(permission_check_result.approved)
              \/ /\ pc = "approval_wait"
                 /\ id \in IdsOf(permission_check_result.needs_approval)
                 /\ ConfirmationConsumed(id)

\* a call the monitor rejects runs no handler: its queued result is the
\* rejection
RejectedUnhandled ==
    \A id \in dispatched' \ dispatched :
       ~MonitorCheck(tool_monitor, RequestOf(id).tool_call).allowed =>
           /\ id \notin handled'
           /\ tool_futures'[Len(tool_futures')] = TaggedStream(id, RepetitionRejected)

\* C22: during reply() no handler (platform handler, router select_tools,
\* extension dispatch) runs for a call unless the repetition monitor let the
\* call through and the permission gate approved its request, at once or by an
\* approving confirmation; a call the monitor rejects triggers no handler
C22_NoBypassOfMonitorOrGate ==
    [][HandlerGuarded /\ RejectedUnhandled /\ handled' \subseteq dispatched']_vars

\* a turn under a configured monitor in which one call was rejected by the
\* monitor and another ran its handler after an approving confirmation
C22_Witness ==
    /\ tool_monitor.configured
    /\ dispatched \ handled # { }
    /\ handled \cap IdsOf(permission_check_result.needs_approval) # { }


\* ------------------------------------------------------------------- C23

\* the queued streams that can only end with a failed result: the call was
\* rejected by the monitor, no selector was there or it failed, the extension
\* dispatch failed
Failing(futures) == { i \in DOMAIN futures : futures[i].outcomes = { "err" } }

\* a step in which a call is dispatched leaves the turn going, its stream
\* queued behind the others
DispatchKeepsTurn ==
    \A id \in dispatched' \ dispatched :
       /\ pc' \in { "approved", "approval" }
       /\ Len(tool_futures') = Len(tool_futures) + 1
       /\ tool_futures'[Len(tool_futures')].id = id
       /\ \A i \in DOMAIN tool_futures : tool_futures'[i] = tool_futures[i]

\* a step that takes the result of a failing stream folds it into the
\* accumulator as the failed result of that id and leaves the other streams
FailureFolded ==
    \A i \in Failing(tool_futures) :
       (pc = "collect" /\ tool_futures' = RemoveAt(tool_futures, i)) =>
           /\ pc' = "collect"
           /\ message_tool_response' =
                  with_tool_response(message_tool_response, tool_futures[i].id, "err")

\* while streams are queued the collection can go on, and once they are all
\* taken the turn goes to its end
CollectGoesOn ==
    pc = "collect" =>
        /\ tool_futures # << >> => ENABLED CollectResult
        /\ tool_futures = << >> => ENABLED FinishCollect

\* at the end of the collection every dispatched call has its one entry
AllFolded ==
    pc = "emit" =>
        \A id \in dispatched :
           Cardinality({ i \in DOMAIN message_tool_response :
                           message_tool_response[i].id = id }) = 1

\* C23: a tool execution error (repetition limit, no selector or a failed
\* selection, a failed extension dispatch) never aborts the turn: it becomes
\* the failed result of its request id in the accumulator, the other calls are
\* still collected and the turn reaches the emission of the accumulator
C23_ToolErrorsFolded ==
    /\ [](CollectGoesOn /\ AllFolded)
    /\ [][DispatchKeepsTurn /\ FailureFolded]_vars

\* the accumulator is about to be emitted with the failed result of a call the
\* monitor rejected next to the successful result of another call
C23_Witness ==
    /\ pc = "emit"
    /\ \E id \in dispatched \ handled :
          [ id |-> id, content |-> "err" ] \in Range(message_tool_response)
    /\ \E id \in handled :
          [ id |-> id, content |-> "ok" ] \in Range(message_tool_response)


\* ------------------------------------------------------------------- C24

\* C24: in an agentic turn the collection of the approved calls overlaps the
\* approval wait: while a needs-approval request awaits its confirmation, an
\* item (notification or result) of a call already dispatched can be taken
\* from its stream and emitted or folded
C24_CollectDuringApprovalWait ==
    (pc = "approval_wait" /\ tool_futures # << >>) =>
        ENABLED (CollectMessage \/ CollectResult)


\* ------------------------------------------------------------------- C25

\* the steps that are an awaited operation of the extension manager, of the
\* index manager or of the selector
AwaitedOperation ==
    \/ ManageExtensionsDisable
    \/ ManageExtensionsInstall
    \/ AddExtensionInstall
    \/ RemoveExtensionRemove
    \/ UpdateExtensionTools
    \/ DispatchBranch

\* C25: the lock of the extension registry is held across an awaited
\* operation only on the generic extension dispatch path of
\* dispatch_tool_call: the platform resource tools, the discovery, the
\* router's select_tools and the install/remove of manage_extensions run
\* with the lock released
C25_LockHeldOnlyAcrossExtensionDispatch ==
    [][AwaitedOperation =>
         \/ extension_manager_lock = "free"
         \/ op = "dispatch_tool_call" /\ action = "extension"]_vars


\* ------------------------------------------------------------------- C26

\* C26: no cancellation: when the reply stream has ended, by its normal end or
\* by an error of a stage, every call dispatched in the turn has had its
\* terminal result taken and folded into the accumulator
C26_DispatchedAlwaysFolded ==
    pc \in { "done", "error" } =>
        \A id \in dispatched :
           /\ \E i \in DOMAIN message_tool_response :
                 message_tool_response[i].id = id
           /\ \A i \in DOMAIN tool_futures : tool_futures[i].id # id


\* ------------------------------------------------------------------- C27

NeedsApprovalIds == IdsOf(permission_check_result.needs_approval)

\* the needs-approval requests that were answered by a denial
DeclinedIds ==
    { id \in NeedsApprovalIds :
        [ id |-> id, content |-> DECLINED_RESPONSE ] \in Range(message_tool_response) }

\* the step takes the confirmation of the awaited request `id` from the channel
Answered(id) ==
    /\ pc = "approval_wait"
    /\ permission_check_result.needs_approval[cursor].id = id
    /\ FirstFor(confirmation_ch, id) > 0
    /\ confirmation_ch' = RemoveAt(confirmation_ch, FirstFor(confirmation_ch, id))

\* the permission of the confirmation the step takes for `id`
AnswerFor(id) == confirmation_ch[FirstFor(confirmation_ch, id)].permission

\* one step seen from the needs-approval request `id`
DispatchedIffApproved(id) ==
    /\ id \in dispatched' \ dispatched =>
           /\ Answered(id)
           /\ AnswerFor(id) = "AllowOnce"
    /\ Answered(id) =>
           IF AnswerFor(id) = "AllowOnce"
           THEN /\ id \in dispatched'
                /\ Len(tool_futures') = Len(tool_futures) + 1
                /\ tool_futures'[Len(tool_futures')].id = id
                /\ message_tool_response' = message_tool_response
           ELSE /\ id \notin dispatched'
                /\ tool_futures' = tool_futures
                /\ message_tool_response' =
                       with_tool_response(message_tool_response, id,
                                          DECLINED_RESPONSE)

\* a declined request is never dispatched and nothing is notified for it; it
\* has the one entry a permission-denied request has
DeclinedLikeDenied ==
    \A id \in DeclinedIds :
       /\ id \notin dispatched
       /\ \A i \in DOMAIN tool_futures : tool_futures[i].id # id
       /\ \A i \in DOMAIN events :
             events[i].type = "McpNotification" => events[i].text[1] # id
       /\ \A d \in IdsOf(permission_check_result.denied) \cup { id } :
             /\ Cardinality(EntriesFor(message_tool_response, d)) = 1
             /\ \A j \in EntriesFor(message_tool_response, d) :
                   message_tool_response[j].content = DECLINED_RESPONSE

\* C27: a needs-approval request is dispatched and its stream queued exactly
\* when an approving confirmation for its id is taken; on a denying one it is
\* never dispatched, nothing is notified for it and it gets the declined
\* response of a permission-denied request
C27_DispatchedIffApproved ==
    /\ []DeclinedLikeDenied
    /\ [][\A id \in NeedsApprovalIds : DispatchedIffApproved(id)]_vars

\* one needs-approval request of the turn was approved and dispatched, another
\* one declined
C27_Witness ==
    /\ DeclinedIds # { }
    /\ dispatched \cap NeedsApprovalIds # { }
    /\ pc = "collect"


\* ------------------------------------------------------------------- C28

\* the turn whose usage charge was rejected: one failure message and nothing
\* of the response
PaymentFailedTurn ==
    /\ pc = "done"
    /\ events = << Message("payment_failed", "", << >>, << >>) >>
    /\ response = << >>
    /\ frontend_requests = << >>
    /\ remaining_requests = << >>
    /\ recorded = { }
    /\ dispatched = { }
    /\ ~gate_consulted
    /\ message_tool_response = << >>
    /\ tool_futures = << >>
    /\ Len(messages) = 1 + 2 * (provider_calls - 1)

\* reply() returned Err for the initial service fee: no stream, no provider
\* call, no event
InitialChargeFailed ==
    /\ provider_calls = 0
    /\ events = << >>
    /\ Len(messages) = 1

\* once the charge is rejected the provider is not called and nothing more is
\* emitted or appended
NothingAfterRejectedCharge ==
    (last_provider_result = "payment_failed" \/ pc = "failed") =>
        /\ pc' = pc
        /\ provider_calls' = provider_calls
        /\ events' = events
        /\ messages' = messages
        /\ dispatched' = dispatched

\* C28: a charge rejected after a successful generation aborts the turn: the
\* response is not emitted, none of its tool requests is categorized, recorded
\* or dispatched, nothing is appended to the history, the provider is not
\* called again and the stream ends after the one failure message; a rejected
\* initial charge makes reply() return an error with no provider call and no
\* event
C28_RejectedChargeAborts ==
    /\ [](last_provider_result = "payment_failed" => PaymentFailedTurn)
    /\ [](pc = "failed" => InitialChargeFailed)
    /\ [][NothingAfterRejectedCharge]_vars

\* the charge of the second turn was rejected, after a first turn with tools
C28_Witness ==
    /\ last_provider_result = "payment_failed"
    /\ provider_calls = 2
    /\ Len(messages) = 3


\* ------------------------------------------------------------------- C29

\* the accumulator emitted last
EmittedAccumulator(evs) == evs[Len(evs)].body

\* the step of a completed tool turn that emits the accumulator: the raw
\* response and then that accumulator are put at the end of the history
AppendsTwo ==
    /\ Len(events') = Len(events) + 1
    /\ events'[Len(events')].kind = "tool_response"
    /\ messages' =
           messages \o << HistoryEntry("response", provider_calls, response),
                          HistoryEntry("tool_response", provider_calls,
                                       EmittedAccumulator(events')) >>

\* any other step leaves the history as long as it was, message by message
AppendsNothing ==
    /\ Len(messages') = Len(messages)
    /\ \A i \in DOMAIN messages :
          /\ messages'[i][1] = messages[i][1]
          /\ messages'[i][2] = messages[i][2]

\* what a GENERATE of the iteration n + 1 is given: the first message and the
\* two messages of each of the n completed tool turns, in order
HistoryAtGenerate ==
    pc = "generate" =>
        /\ Len(messages) = 1 + 2 * provider_calls
        /\ \A n \in 1..provider_calls :
              /\ messages[2 * n][1] = "response" /\ messages[2 * n][2] = n
              /\ messages[2 * n + 1][1] = "tool_response"
              /\ messages[2 * n + 1][2] = n

\* C29: a completed tool turn appends exactly two messages to the history,
\* the raw response and then the accumulator as it was just emitted; the next
\* GENERATE sees the previous history and these two; a turn that ends the
\* loop or fails appends nothing
C29_AppendsResponseThenAccumulator ==
    /\ []HistoryAtGenerate
    /\ [][IF pc = "emit" /\ pc' = "yield" THEN AppendsTwo ELSE AppendsNothing]_vars

\* a tool turn with a frontend request, which the filtered response does not
\* carry, has just appended its two messages
C29_Witness ==
    /\ pc = "yield"
    /\ Len(messages) = 3
    /\ frontend_requests # << >>
    /\ remaining_requests # << >>
    /\ messages[2][3] = response
    /\ messages[3][3] = message_tool_response
    /\ Len(message_tool_response) = 2


\* ------------------------------------------------------------------- C30

\* the requests record_tool_call was called for in this iteration
RecordedIds == { t[1] : t \in recorded }

\* the requests the frontend was asked to run in this iteration
FrontendAsked ==
    { events[i].id : i \in { j \in DOMAIN events : events[j].kind = "frontend_request" } }

\* with a selector, whatever was handed to the frontend or dispatched so far
\* was given to record_tool_call before
DispatchedWereRecorded ==
    (router_tool_selector /\ last_provider_result = "ok") =>
        /\ dispatched \subseteq RecordedIds
        /\ FrontendAsked \subseteq RecordedIds

\* the step that emits the filtered response comes with the records of every
\* parsed request of the response, and goes on to the tool stages whether or
\* not a record failed
RecordedBeforeEmitted ==
    (router_tool_selector /\ events = << >> /\ events' # << >>
        /\ last_provider_result' = "ok") =>
        /\ RecordedIds' = ParsedIds(response')
        /\ pc' = IF response' = << >> THEN "done" ELSE "frontend"

\* C30: with a router selector, every call dispatched in a turn, by the
\* frontend or by the agent, was recorded with the selector, and the records
\* of a turn are made before its filtered response is emitted; a record that
\* fails does not abort the turn
C30_RecordedBeforeDispatch ==
    /\ []DispatchedWereRecorded
    /\ [][RecordedBeforeEmitted]_vars

\* a tool turn is complete although the record of a dispatched call failed,
\* next to the record of a call the frontend ran
C30_Witness ==
    /\ pc = "emit"
    /\ router_tool_selector
    /\ \E id \in dispatched : << id, "Err" >> \in recorded
    /\ FrontendAsked \cap RecordedIds # { }


\* ------------------------------------------------------------------- C31

RouterSearchNames == { ROUTER_VECTOR_SEARCH_TOOL_NAME, ROUTER_LLM_SEARCH_TOOL_NAME }

\* the step is a call of dispatch_tool_call that went past the monitor
DispatchedPastMonitor ==
    /\ calls'.total = calls.total + 1
    /\ calls'.last.result.branch # "monitor"

\* the answer to a name of the frontend-tool table that is no platform name
FrontendNameAnswer ==
    LET name == calls'.last.call.name
        result == calls'.last.result
    IN  (name \in frontend_tools /\ PlatformBranch(name) = "none") =>
            /\ result.branch = "frontend"
            /\ result.error = "Frontend tool execution required"
            /\ result.outcomes = { "err" }
            /\ ~result.notifications

\* the answer to a router search name that is not in the frontend-tool table
RouterNameAnswer ==
    LET name == calls'.last.call.name
        result == calls'.last.result
    IN  (name \in RouterSearchNames /\ name \notin frontend_tools) =>
            /\ result.branch = "router"
            /\ IF router_tool_selector
               THEN \/ result.outer = "Ok" /\ result.outcomes = { "ok" }
                    \/ /\ result.outer = "Err"
                       /\ result.error = "Failed to select tools"
               ELSE /\ result.outer = "Err"
                    /\ result.error = "No tool selector available"

\* C31: dispatch_tool_call answers a name registered as a frontend tool, and
\* not a platform name, by the error "Frontend tool execution required"
\* without the extension dispatch or the selector, even when the name is a
\* router search name; a router search name that is no frontend tool is
\* answered by select_tools, and by an error, never the generic extension
\* dispatch, when there is no selector or the selection fails
C31_FrontendBeforeRouter ==
    [][DispatchedPastMonitor => FrontendNameAnswer /\ RouterNameAnswer]_vars

\* with a selector installed, the router's vector search name, registered by
\* a frontend extension, was answered by the frontend error
C31_Witness ==
    /\ calls.total > 0
    /\ router_tool_selector
    /\ calls.last.call.name = ROUTER_VECTOR_SEARCH_TOOL_NAME
    /\ calls.last.result = FrontendRequired


\* ------------------------------------------------------------------- C32

\* the step is the lookup of manage_extensions with an action that is not
\* "disable"
LookupStep ==
    /\ op = "manage_extensions"
    /\ op_pc = "locked"
    /\ action # "disable"
    /\ op_pc' # op_pc

\* a lookup that does not give a configuration returns its own error, with
\* the extensions as they were, no index update and the lock released
LookupErrorReturned ==
    /\ op_pc' = "returned"
    /\ op_result' \in { NotFound, LookupFailure }
    /\ op_result' = NotFound => extension_name \notin StoredConfigs
    /\ extensions' = extensions
    /\ index_updates' = << >>
    /\ ~op_mutated'
    /\ extension_manager_lock' = "free"

\* C32: manage_extensions with an action other than "disable" whose lookup of
\* the stored configuration finds nothing or fails returns an error, one for
\* not found and another for the failed lookup; the extensions are left as
\* they were and no index update is issued
C32_LookupErrorLeavesRegistry ==
    /\ NotFound # LookupFailure
    /\ [][LookupStep =>
            /\ extension_name \notin StoredConfigs => LookupErrorReturned
            /\ op_pc' # "install" => LookupErrorReturned
            /\ op_pc' = "install" => extension_name \in StoredConfigs]_vars

\* an enable of an extension with a stored configuration returned the error of
\* a failed lookup, the registry holding another extension
C32_Witness ==
    /\ op = "manage_extensions"
    /\ op_pc = "returned"
    /\ action = "enable"
    /\ op_result = LookupFailure
    /\ extension_name \in StoredConfigs
    /\ extensions # { }


\* ------------------------------------------------------------------- C33

\* C33: no operation asks for the lock of the extension registry while it
\* holds it itself: an operation that has taken the lock can always take its
\* next step until it has returned, whatever its action, the outcome of its
\* mutation and the router selection
C33_NoLockWhileHolding ==
    op # "none" =>
        /\ op_pc = "index_lock" => extension_manager_lock # op
        /\ op_pc # "returned" => ENABLED ExtensionStep


\* ------------------------------------------------------------------- C34

\* the task that holds the lock the task `t` is waiting for, 0 when `t` is
\* not waiting
WaitsFor(t) ==
    IF Statement(t) # << >> /\ Statement(t)[1] = "lock"
    THEN lock_holder[Statement(t)[2]]
    ELSE 0

RECURSIVE Follow(_, _)
\* the task reached from `t` after `k` steps of WaitsFor, 0 when the chain ends
Follow(t, k) ==
    IF k = 0 \/ t = 0 THEN t ELSE Follow(WaitsFor(t), k - 1)

\* the locks the task `t` holds
HeldBy(t) == { l \in Locks : lock_holder[l] = t }

\* an order of the locks that every nested acquisition follows
LockRank(l) ==
    CASE l = "tool_monitor" -> 0
      [] l = "extension_manager" -> 1
      [] l = "prompt_manager" -> 2
      [] l = "frontend_tools" -> 2
      [] l = "frontend_instructions" -> 3
      [] l = "router_tool_selector" -> 3
      [] l = "provider" -> 3

\* C34: the methods of the agent, run side by side, take distinct locks in
\* one order: a task that asks for a lock holds only locks that come before
\* it, no two tasks wait for a lock of each other, and no chain of tasks
\* waiting for one another comes back to its first task
C34_NoCircularWait ==
    /\ \A t \in Tasks :
          (Statement(t) # << >> /\ Statement(t)[1] = "lock") =>
              \A l \in HeldBy(t) \ { Statement(t)[2] } :
                 LockRank(l) < LockRank(Statement(t)[2])
    /\ \A t1, t2 \in Tasks :
          t1 # t2 => ~(WaitsFor(t1) = t2 /\ WaitsFor(t2) = t1)
    /\ \A t \in Tasks :
          \A k \in 2..MaxTasks : WaitsFor(t) # t => Follow(t, k) # t

\* create_recipe, holding the extension manager and the prompt manager, waits
\* for the frontend instructions that a task adding a frontend extension
\* holds together with the frontend tools
C34_Witness ==
    \E t1, t2 \in Tasks :
       /\ t1 # t2
       /\ tasks[t1][1] = "create_recipe"
       /\ tasks[t2][1] = "add_frontend_extension"
       /\ WaitsFor(t1) = t2
       /\ HeldBy(t1) = { "extension_manager", "prompt_manager" }
       /\ HeldBy(t2) = { "frontend_tools", "frontend_instructions" }


\* ------------------------------------------------------------------- C35

\* a turn whose response carried tool requests is under way
TurnWithRequests ==
    pc \in { "frontend", "frontend_wait", "approved", "approval",
              "approval_wait", "collect", "emit" }

\* APPEND is done: the accumulator was emitted, the two messages were pushed
Appended == pc = "yield"

\* the stream of reply() is over
LoopEnded == pc \in { "done", "error", "failed" }

\* what the loop is allowed to end on: no tool request in the response, an
\* error of the provider (no provider set included), a rejected charge
EndedAsAllowed ==
    \/ pc = "failed"
    \/ pc = "done" /\ last_provider_result \in
           { "ok", "payment_failed", "context_length_exceeded" } \cup ProviderErrors
    \/ pc = "error" /\ last_provider_result = "none" /\ ~provider

\* only the progress half of C35
TurnProgress == TurnWithRequests ~> Appended

\* C35: with a provider that returns, futures that resolve, frontend results
\* and confirmations that are supplied, every turn with tool requests emits
\* its aggregated tool response and reaches APPEND, and the loop ends only on
\* a response without tool requests, a provider error or a rejected charge
C35_TurnProgress ==
    /\ TurnWithRequests ~> Appended
    /\ [](LoopEnded => EndedAsAllowed)

====
